---- MODULE Spec2Model ----
(***************************************************************************)
(* A model of the AI annotation extension: the detection engine            *)
(* (src/src/detectionEngine.ts), the clipboard detector                    *)
(* (src/unnamed/part_001) and the annotation writer                        *)
(* (src/src/annotationWriter.ts).                                          *)
(*                                                                         *)
(* Text is a sequence of one-character strings, so that trim, includes,    *)
(* split and concatenation are computed as the code computes them.         *)
(* Time is Date.now() in milliseconds; a timer is modelled by its          *)
(* deadline and fires at or after it.                                      *)
(***************************************************************************)
EXTENDS Integers, Sequences, FiniteSets, TLC

VARIABLES
    now,            \* Date.now()
    config,         \* DetectionEngine.config
    pasteFlag,      \* ClipboardDetector.pasteFlag
    lastClipboard,  \* ClipboardDetector.lastClipboard
    pastePc,        \* where the handlePaste call in progress stands
    pasteTimers,    \* deadlines of the timers handlePaste has set
    poll,           \* the polling interval: its next tick, and reads in flight
    suppressedDocs, \* DetectionEngine.suppressedDocs
    buffers,        \* DetectionEngine.buffers
    flushTimers,    \* DetectionEngine.flushTimers: key -> deadline of the timer
    fileOpens,      \* processFileChange calls awaiting openTextDocument
    emitted,        \* results handed to onDetectionCb by the last step
    log,            \* lines the last step appended to the output channel
    run,            \* history: per buffer key, the changes of the current burst
    docOpen,        \* whether the file is open as a TextDocument
    content,        \* the text of the file (TextDocument.getText())
    snapshots,      \* AnnotationWriter.snapshots
    cooldowns,      \* AnnotationWriter.cooldowns
    locks,          \* AnnotationWriter.locks: key -> the job last chained for it
    jobs,           \* the promises annotate has created, in the order of creation
    inserts,        \* history: number of lines inserted into the file so far
    edits,          \* history: per successful edit, when its result reached annotate
    oldText,        \* findNewCodeRange on its own: the snapshot
    curText,        \* findNewCodeRange on its own: the text of the document
    block,          \* history: the lines inserted into the snapshot
    blockAt,        \* history: the index of the first inserted line
    range           \* findNewCodeRange on its own: what it returned

clipVars == <<pasteFlag, lastClipboard, pastePc, pasteTimers, poll>>

engineVars == <<config, clipVars, buffers, flushTimers, fileOpens, emitted, log>>

writerVars == <<docOpen, content, snapshots, cooldowns, locks, jobs, inserts, edits>>

diffVars == <<oldText, curText, block, blockAt, range>>

vars == <<now, suppressedDocs, engineVars, run, writerVars, diffVars>>

----------------------------------------------------------------------------
(* Bounds of the model *)

\* Date.now() when the extension is activated
StartTime == 10000
\* the engine runs are cut off at StartTime + EngineSpan
EngineSpan == 875
\* a pending buffer is not extended beyond this many characters
MaxBufferChars == 15

----------------------------------------------------------------------------
(* Strings *)

WhiteSpace == {" ", "\t", "\n", "\r"}

SeqMax(S) == CHOOSE x \in S : \A y \in S : x >= y

RECURSIVE TrimStart(_)
TrimStart(s) ==
    IF s # <<>> /\ Head(s) \in WhiteSpace THEN TrimStart(Tail(s)) ELSE s

RECURSIVE TrimEnd(_)
TrimEnd(s) ==
    IF s # <<>> /\ s[Len(s)] \in WhiteSpace
    THEN TrimEnd(SubSeq(s, 1, Len(s) - 1)) ELSE s

\* String.prototype.trim
Trim(s) == TrimEnd(TrimStart(s))

\* String.prototype.includes
Includes(s, sub) ==
    \E i \in 0..(Len(s) - Len(sub)) : SubSeq(s, i + 1, i + Len(sub)) = sub

\* String.prototype.lastIndexOf (0-based, -1 when absent)
LastIndexOf(s, sub) ==
    LET at == {i \in 0..(Len(s) - Len(sub)) : SubSeq(s, i + 1, i + Len(sub)) = sub}
    IN  IF at = {} THEN -1 ELSE SeqMax(at)

\* String.prototype.substring(from)
Substring(s, from) ==
    LET f == IF from < 0 THEN 0 ELSE IF from > Len(s) THEN Len(s) ELSE from
    IN  SubSeq(s, f + 1, Len(s))

Rep(c, n) == [i \in 1..n |-> c]

LowerChar(c) ==
    CASE c = "A" -> "a"
      [] c = "B" -> "b"
      [] OTHER -> c

\* String.prototype.toLowerCase
ToLowerCase(s) == [i \in 1..Len(s) |-> LowerChar(s[i])]

\* DetectionEngine.countLines
CountLines(text) == 1 + Cardinality({i \in 1..Len(text) : text[i] = "\n"})

ANNOTATION_MARKER ==
    <<"A","I","_","A","S","S","I","S","T","E","D",":"," ","t","r","u","e">>

ANNOTATION_END_MARKER ==
    <<"A","I","_","A","S","S","I","S","T","E","D","_","E","N","D">>

----------------------------------------------------------------------------
(* Documents *)

\* a TextDocument as the engine sees it: its uri scheme and its fileName
FileA == [scheme |-> "file", fileName |-> <<"/", "A">>]
ChatA == [scheme |-> "chat-editing-text-model", fileName |-> <<"/", "A">>]

Docs == {FileA, ChatA}
FileDocs == {d \in Docs : d.scheme = "file"}

\* doc.uri.toString()
UriString(doc) == <<doc.scheme, ":", "/", "/">> \o doc.fileName

\* DetectionEngine.getBufferKey
GetBufferKey(doc) == ToLowerCase(doc.fileName)

MapDelete(m, k) == [x \in DOMAIN m \ {k} |-> m[x]]
MapSet(m, k, v) == [x \in DOMAIN m \cup {k} |-> IF x = k THEN v ELSE m[x]]

----------------------------------------------------------------------------
(* Clipboard detector *)

\* the period of the interval startPolling sets
POLL_MS == 1500
\* the delay of the timer handlePaste sets to clear pasteFlag
PASTE_FLAG_MS == 500

\* a slip: the floor of 3 characters is left out
WasPastedNoFloor(insertedText) ==
    IF pasteFlag THEN TRUE
    ELSE IF Trim(insertedText) = Trim(lastClipboard) THEN TRUE
    ELSE IF /\ Len(lastClipboard) > 20
            /\ Includes(insertedText, Trim(lastClipboard)) THEN TRUE
    ELSE FALSE

\* a slip: only the flag is looked at
WasPastedFlagOnly(insertedText) == pasteFlag

\* ClipboardDetector.wasPasted
WasPasted(insertedText) ==
    IF pasteFlag THEN TRUE
    ELSE IF /\ Len(lastClipboard) > 3
            /\ Len(insertedText) > 3
            /\ Trim(insertedText) = Trim(lastClipboard) THEN TRUE
    ELSE IF /\ Len(lastClipboard) > 20
            /\ Includes(insertedText, Trim(lastClipboard)) THEN TRUE
    ELSE FALSE

----------------------------------------------------------------------------
(* Detection engine *)

COALESCE_MS == 350
MIN_COALESCED_CHARS == 8

\* the engine's mutable maps, with the results emitted and the lines logged so
\* far by the running handler, threaded through the helpers below
EngineState ==
    [buffers |-> buffers, flushTimers |-> flushTimers, out |-> <<>>, log |-> <<>>]

\* this.log.appendLine
LogLine(st, line) == [st EXCEPT !.log = Append(@, line)]

\* DetectionEngine.emitResult
EmitResult(st, doc, line, text, reason) ==
    [st EXCEPT !.out = Append(@, [classification |-> "AI_LIKELY",
                                   document |-> doc,
                                   line |-> line,
                                   text |-> text,
                                   reason |-> reason])]

\* a slip: the timer is set to the window, without the 50 ms on top
ResetFlushTimerNoMargin(st, bufKey) ==
    [st EXCEPT !.flushTimers = MapSet(@, bufKey, now + COALESCE_MS)]

\* a slip: no timer is set
ResetFlushTimerNever(st, bufKey) == st

\* DetectionEngine.resetFlushTimer
ResetFlushTimer(st, bufKey) ==
    [st EXCEPT !.flushTimers = MapSet(@, bufKey, now + COALESCE_MS + 50)]

\* a slip: the test for a single short completion is left out
FlushDecisionNoIntelliSense(st, buf) ==
    LET trimmed == Trim(buf.totalText)
        st1 == LogLine(st, <<"FLUSH", buf.changeCount, buf.totalChars>>)
    IN  IF Len(trimmed) < MIN_COALESCED_CHARS
            THEN LogLine(st1, <<"SKIP: coalesced content too small">>)
        ELSE IF buf.changeCount >= 2 \/ Len(trimmed) >= 20
            THEN EmitResult(LogLine(st1, <<"AI_LIKELY (coalesced)">>),
                            buf.document, buf.startLine, buf.totalText,
                            <<"Coalesced", buf.changeCount, buf.totalChars>>)
        ELSE LogLine(st1, <<"SKIP: not enough evidence">>)

\* flushBuffer, the decision on the buffer taken out of the map
FlushDecision(st, buf) ==
    LET trimmed == Trim(buf.totalText)
        st1 == LogLine(st, <<"FLUSH", buf.changeCount, buf.totalChars>>)
    IN  IF Len(trimmed) < MIN_COALESCED_CHARS
            THEN LogLine(st1, <<"SKIP: coalesced content too small">>)
        ELSE IF /\ buf.changeCount = 1
                /\ buf.totalChars < 40
                /\ CountLines(buf.totalText) = 1
            THEN LogLine(st1, <<"SKIP: likely IntelliSense">>)
        ELSE IF buf.changeCount >= 2 \/ Len(trimmed) >= 20
            THEN EmitResult(LogLine(st1, <<"AI_LIKELY (coalesced)">>),
                            buf.document, buf.startLine, buf.totalText,
                            <<"Coalesced", buf.changeCount, buf.totalChars>>)
        ELSE LogLine(st1, <<"SKIP: not enough evidence">>)

\* a slip: the flush drops the buffer of a disabled engine or of a
\* suppressed document without a decision
FlushBufferIfLive(st, bufKey) ==
    LET st1 == [st EXCEPT !.flushTimers = MapDelete(@, bufKey)]
    IN  IF bufKey \notin DOMAIN st.buffers THEN st1
        ELSE IF ~config.enabled
                \/ UriString(st.buffers[bufKey].document) \in suppressedDocs
            THEN [st1 EXCEPT !.buffers = MapDelete(@, bufKey)]
        ELSE FlushDecision([st1 EXCEPT !.buffers = MapDelete(@, bufKey)],
                           st.buffers[bufKey])

\* a slip: the buffer is not deleted before the decision
FlushBufferKeeps(st, bufKey) ==
    LET st1 == [st EXCEPT !.flushTimers = MapDelete(@, bufKey)]
    IN  IF bufKey \notin DOMAIN st.buffers THEN st1
        ELSE FlushDecision(st1, st.buffers[bufKey])

\* DetectionEngine.flushBuffer
FlushBuffer(st, bufKey) ==
    LET st1 == [st EXCEPT !.flushTimers = MapDelete(@, bufKey)]
    IN  IF bufKey \notin DOMAIN st.buffers THEN st1
        ELSE FlushDecision([st1 EXCEPT !.buffers = MapDelete(@, bufKey)],
                           st.buffers[bufKey])

\* processChange, the test of the document's scheme and name
IsInternalDoc(doc) ==
    \/ doc.scheme \in {"output", "debug", "git", "vscode", "search-editor"}
    \/ Includes(doc.fileName, <<"extension-output">>)

\* a slip: the set is asked for the buffer key instead of the uri string
SkipSuppressedByKey(doc) == GetBufferKey(doc) \in suppressedDocs

\* processChange, "SKIP: suppressed"
SkipSuppressed(doc) == UriString(doc) \in suppressedDocs

\* a slip: the test for the markers is left out
ContainsMarkerNever(text) == FALSE

\* processChange, "SKIP: contains our markers"
ContainsMarker(text) ==
    Includes(text, ANNOTATION_MARKER) \/ Includes(text, ANNOTATION_END_MARKER)

\* a slip: every one-character text counts as typing, replacing or not
IsSingleCharNever(change) == FALSE

\* a slip: the test of rangeLength is turned around
IsSingleCharReplacing(change) == Len(change.text) = 1 /\ change.rangeLength # 0

\* processChange, "SKIP: single character = human typing"
IsSingleChar(change) == Len(change.text) = 1 /\ change.rangeLength = 0

\* processChange, the test for an instant large block
IsInstant(text) == Len(Trim(text)) >= 30 /\ CountLines(text) >= 3

\* a slip: any existing buffer is extended, whatever its age
WithinWindowAlways(existing) == TRUE

\* processChange, the test of the coalescing window
WithinWindow(existing) == (now - existing.lastTime) < COALESCE_MS

\* a slip: totalText is assigned instead of appended to
ExtendBufferOverwrite(existing, change) ==
    [existing EXCEPT
        !.totalText = change.text,
        !.totalChars = @ + Len(change.text),
        !.lastTime = now,
        !.endLine = IF change.line + CountLines(change.text) - 1 > @
                    THEN change.line + CountLines(change.text) - 1 ELSE @,
        !.changeCount = @ + 1]

\* processChange, the update of an existing buffer
ExtendBuffer(existing, change) ==
    [existing EXCEPT
        !.totalText = @ \o change.text,
        !.totalChars = @ + Len(change.text),
        !.lastTime = now,
        !.endLine = IF change.line + CountLines(change.text) - 1 > @
                    THEN change.line + CountLines(change.text) - 1 ELSE @,
        !.changeCount = @ + 1]

\* processChange, the buffer a change starts (firstTime, which the code
\* writes and never reads, is left out)
NewBuffer(doc, change) ==
    [document |-> doc,
     totalText |-> change.text,
     totalChars |-> Len(change.text),
     startLine |-> change.line,
     endLine |-> change.line + CountLines(change.text) - 1,
     lastTime |-> now,
     changeCount |-> 1]

\* a slip in the other direction: the buffer key is handed to flushBuffer
InstantFlushKeyOfBuffer(doc) == GetBufferKey(doc)

\* processChange, the key its instant path hands to flushBuffer
InstantFlushKey(doc) == UriString(doc)

\* processChange, "COALESCE: Buffer small rapid changes"
Coalesce(st, doc, change) ==
    LET bufKey == GetBufferKey(doc)
    IN  IF bufKey \in DOMAIN st.buffers /\ WithinWindow(st.buffers[bufKey])
        THEN LET ext == ExtendBuffer(st.buffers[bufKey], change)
             IN  LogLine(ResetFlushTimer([st EXCEPT !.buffers[bufKey] = ext], bufKey),
                         <<"BUFFERED", ext.changeCount, ext.totalChars>>)
        ELSE LogLine(ResetFlushTimer(
                        [FlushBuffer(st, bufKey) EXCEPT
                            !.buffers = MapSet(@, bufKey, NewBuffer(doc, change))],
                        bufKey),
                     <<"BUFFER START">>)

\* a slip: the enable flag is not looked at
ProcessChangeOnAnyFlag(st, doc, change) ==
    LET text == change.text
        st1 == LogLine(st, <<"CHANGE", UriString(doc) \in suppressedDocs>>)
    IN  IF IsInternalDoc(doc) THEN st
        ELSE IF SkipSuppressed(doc) THEN LogLine(st1, <<"SKIP: suppressed">>)
        ELSE IF Len(text) = 0 THEN st1
        ELSE IF ContainsMarker(text) THEN LogLine(st1, <<"SKIP: our marker">>)
        ELSE IF IsSingleChar(change) THEN st1
        ELSE IF WasPasted(text) THEN LogLine(st1, <<"SKIP: paste">>)
        ELSE IF IsInstant(text)
            THEN EmitResult(
                    FlushBuffer(LogLine(st1, <<"AI_LIKELY (instant)">>),
                                InstantFlushKey(doc)),
                    doc, change.line, text,
                    <<"Instant", CountLines(text), Len(text)>>)
        ELSE Coalesce(st1, doc, change)

\* DetectionEngine.processChange
ProcessChangeOn(st, doc, change) ==
    LET text == change.text
        charCount == Len(text)
        st1 == LogLine(st, <<"CHANGE", UriString(doc) \in suppressedDocs>>)
    IN  IF ~config.enabled THEN st
        ELSE IF IsInternalDoc(doc) THEN st
        ELSE IF SkipSuppressed(doc) THEN LogLine(st1, <<"SKIP: suppressed">>)
        ELSE IF charCount = 0 THEN st1
        ELSE IF ContainsMarker(text) THEN LogLine(st1, <<"SKIP: our marker">>)
        ELSE IF IsSingleChar(change) THEN st1
        ELSE IF WasPasted(text) THEN LogLine(st1, <<"SKIP: paste">>)
        ELSE IF IsInstant(text)
            THEN EmitResult(
                    FlushBuffer(LogLine(st1, <<"AI_LIKELY (instant)">>),
                                InstantFlushKey(doc)),
                    doc, change.line, text,
                    <<"Instant", CountLines(text), charCount>>)
        ELSE Coalesce(st1, doc, change)

\* DetectionEngine.processFileChange, from the point openTextDocument resolved
FileChangeOn(st, doc, text) ==
    LET trimmed == Trim(text)
    IN  IF Len(trimmed) < config.minCharsForDetection THEN st
        ELSE IF Includes(text, ANNOTATION_MARKER) THEN
            LET lastEnd == LastIndexOf(text, ANNOTATION_END_MARKER)
                afterEnd == Trim(Substring(text, lastEnd + Len(ANNOTATION_END_MARKER)))
            IN  IF Len(afterEnd) < 20 THEN st
                ELSE EmitResult(LogLine(st, <<"FILE_CHANGE: after last end">>),
                                doc, 0, afterEnd,
                                <<"File watcher: unannotated code after last block">>)
        ELSE IF CountLines(text) < 3 THEN st
        ELSE EmitResult(LogLine(st, <<"FILE_CHANGE", CountLines(text)>>),
                        doc, 0, text, <<"File watcher", CountLines(text)>>)

\* AnnotationWriter.resolveRealFile
ResolveRealFile(doc) ==
    IF doc.scheme \in {"file", "untitled"} THEN doc
    ELSE [scheme |-> "file", fileName |-> doc.fileName]

----------------------------------------------------------------------------
(* Inputs of the engine *)

T1 == <<"x">>
T4 == Rep("a", 4)
T5 == Rep("b", 5)
T6 == Rep("c", 6)
\* three lines, 32 characters
TBlock == Rep("d", 10) \o <<"\n">> \o Rep("d", 10) \o <<"\n">> \o Rep("d", 10)

\* the content changes the editor reports: a deletion, a typed character,
\* three short completions and a large block
Changes ==
    { [text |-> <<>>,   rangeLength |-> 1, line |-> 0],
      [text |-> T1,     rangeLength |-> 0, line |-> 0],
      [text |-> T4,     rangeLength |-> 0, line |-> 0],
      [text |-> T5,     rangeLength |-> 0, line |-> 1],
      [text |-> T6,     rangeLength |-> 0, line |-> 2],
      [text |-> TBlock, rangeLength |-> 0, line |-> 1] }

CommentStart == <<"/", "/", " ">> \o ANNOTATION_MARKER
CommentEnd == <<"/", "/", " ">> \o ANNOTATION_END_MARKER

\* file contents processFileChange may read
FileTexts ==
    { TBlock,
      T6,
      CommentStart \o <<"\n">> \o T6 \o <<"\n">> \o CommentEnd \o <<"\n">>,
      CommentStart \o <<"\n">> \o T6 \o <<"\n">> \o CommentEnd \o <<"\n">> \o TBlock,
      TBlock \o <<"\n">> \o CommentStart \o <<"\n">> \o T6 \o <<"\n">>
             \o CommentEnd \o <<"\n">> }

EngineDeltas == {175}

----------------------------------------------------------------------------
(* Actions of the engine *)

\* a change that passes every test of processChange's reject chain
Survives(doc, change) ==
    /\ config.enabled
    /\ ~IsInternalDoc(doc)
    /\ UriString(doc) \notin suppressedDocs
    /\ Len(change.text) > 0
    /\ ~ContainsMarker(change.text)
    /\ ~IsSingleChar(change)
    /\ ~WasPasted(change.text)

\* a change that is looked at for coalescing
BufferWorthy(doc, change) == Survives(doc, change) /\ ~IsInstant(change.text)

\* the history variable run, kept by the rule of the coalescing window alone:
\* a buffer-worthy change joins the burst of its file when it arrives less
\* than COALESCE_MS after the burst's last change, and starts a burst otherwise
RunAfter(doc, change) ==
    LET k == GetBufferKey(doc)
    IN  IF ~BufferWorthy(doc, change) THEN run
        ELSE IF k \in DOMAIN run /\ now - run[k].last < COALESCE_MS
             THEN [run EXCEPT ![k] = [texts |-> Append(@.texts, change.text),
                                       last |-> now]]
        ELSE MapSet(run, k, [texts |-> <<change.text>>, last |-> now])

\* EventListener: one content change forwarded to processChange
ProcessChange(doc, change) ==
    /\ UNCHANGED <<now, config, clipVars, suppressedDocs, fileOpens>>
    /\ UNCHANGED <<writerVars, diffVars>>
    /\ LET st == ProcessChangeOn(EngineState, doc, change)
       IN  /\ \A k \in DOMAIN st.buffers :
                  st.buffers[k].totalChars <= MaxBufferChars
           /\ buffers' = st.buffers
           /\ flushTimers' = st.flushTimers
           /\ emitted' = st.out
           /\ log' = st.log
    /\ run' = RunAfter(doc, change)

\* the callback resetFlushTimer hands to setTimeout
FlushTimerFires(bufKey) ==
    /\ UNCHANGED <<now, config, clipVars, suppressedDocs, fileOpens>>
    /\ UNCHANGED <<writerVars, diffVars>>
    /\ bufKey \in DOMAIN flushTimers
    /\ flushTimers[bufKey] <= now
    /\ LET st == FlushBuffer(EngineState, bufKey)
       IN  /\ buffers' = st.buffers
           /\ flushTimers' = st.flushTimers
           /\ emitted' = st.out
           /\ log' = st.log
    /\ run' = MapDelete(run, bufKey)

\* DetectionEngine.processFileChange up to its await
ProcessFileChange(doc) ==
    /\ doc \notin fileOpens
    /\ fileOpens' = IF ~config.enabled THEN fileOpens
                    ELSE IF UriString(doc) \in suppressedDocs THEN fileOpens
                    ELSE fileOpens \cup {doc}
    /\ emitted' = <<>>
    /\ log' = <<>>
    /\ UNCHANGED <<now, config, clipVars, suppressedDocs, buffers,
                   flushTimers, run>>
    /\ UNCHANGED <<writerVars, diffVars>>

\* DetectionEngine.processFileChange from the point openTextDocument settles
FileOpened(doc, opened, text) ==
    /\ doc \in fileOpens
    /\ fileOpens' = fileOpens \ {doc}
    /\ LET st == IF opened THEN FileChangeOn(EngineState, doc, text) ELSE EngineState
       IN  /\ emitted' = st.out
           /\ log' = st.log
    /\ UNCHANGED <<now, config, clipVars, suppressedDocs, buffers,
                   flushTimers, run>>
    /\ UNCHANGED <<writerVars, diffVars>>

\* the clock
Tick(d) ==
    /\ now + d <= StartTime + EngineSpan
    /\ now' = now + d
    /\ emitted' = <<>>
    /\ log' = <<>>
    /\ UNCHANGED <<config, clipVars, suppressedDocs, buffers,
                   flushTimers, fileOpens, run>>
    /\ UNCHANGED <<writerVars, diffVars>>

\* In the engine's specification the writer is reduced to what it does to
\* suppressedDocs, the one piece of state the two classes share.

\* AnnotationWriter.doAnnotate, "Suppress", for a result on doc
WriterSuppresses(doc) ==
    /\ suppressedDocs' =
          suppressedDocs \cup {UriString(ResolveRealFile(doc)), UriString(doc)}
    /\ emitted' = <<>>
    /\ log' = <<>>
    /\ UNCHANGED <<now, config, clipVars, buffers, flushTimers,
                   fileOpens, run>>
    /\ UNCHANGED <<writerVars, diffVars>>

\* AnnotationWriter.doAnnotate, the callback of its grace timer
WriterUnsuppresses(doc) ==
    /\ UriString(doc) \in suppressedDocs
    /\ suppressedDocs' =
          suppressedDocs \ {UriString(ResolveRealFile(doc)), UriString(doc)}
    /\ emitted' = <<>>
    /\ log' = <<>>
    /\ UNCHANGED <<now, config, clipVars, buffers, flushTimers,
                   fileOpens, run>>
    /\ UNCHANGED <<writerVars, diffVars>>

\* the engine and the clipboard detector after construction
EngineInit ==
    /\ config = [enabled |-> TRUE, minCharsForDetection |-> 8]
    /\ pasteFlag = FALSE
    /\ lastClipboard = <<>>
    /\ pastePc = "idle"
    /\ pasteTimers = {}
    /\ poll = [at |-> StartTime + POLL_MS, reads |-> 0]
    /\ buffers = <<>>
    /\ flushTimers = <<>>
    /\ fileOpens = {}
    /\ emitted = <<>>
    /\ log = <<>>
    /\ run = <<>>

\* no file is open in an editor and the writer has no job
WriterIdle ==
    /\ docOpen = FALSE
    /\ content = <<>>
    /\ snapshots = <<>>
    /\ cooldowns = <<>>
    /\ locks = <<>>
    /\ jobs = <<>>
    /\ inserts = 0
    /\ edits = <<>>

\* findNewCodeRange is not looked at on its own
DiffIdle ==
    /\ oldText = <<>>
    /\ curText = <<>>
    /\ block = <<>>
    /\ blockAt = 0
    /\ range = <<>>

Init ==
    /\ now = StartTime
    /\ suppressedDocs = {}
    /\ EngineInit
    /\ WriterIdle
    /\ DiffIdle

Next ==
    \/ \E doc \in Docs, change \in Changes : ProcessChange(doc, change)
    \/ \E k \in DOMAIN flushTimers : FlushTimerFires(k)
    \/ \E doc \in FileDocs : ProcessFileChange(doc)
    \/ \E doc \in FileDocs, opened \in BOOLEAN, text \in FileTexts :
          FileOpened(doc, opened, text)
    \/ \E d \in EngineDeltas : Tick(d)
    \/ \E doc \in Docs : WriterSuppresses(doc)
    \/ \E doc \in Docs : WriterUnsuppresses(doc)

Spec == Init /\ [][Next]_vars

----------------------------------------------------------------------------
(* Claims about the detection engine, checked under Spec *)

RECURSIVE ConcatAll(_)
ConcatAll(texts) ==
    IF texts = <<>> THEN <<>> ELSE Head(texts) \o ConcatAll(Tail(texts))

RECURSIVE SumLen(_)
SumLen(texts) ==
    IF texts = <<>> THEN 0 ELSE Len(Head(texts)) + SumLen(Tail(texts))

\* C1. No feedback loop: a processChange call and a processFileChange call
\* made while the document's uri string is in suppressedDocs emit no result
\* and neither create nor extend a pending buffer (nor arm a timer, nor start
\* opening the file).  Stated from the effect: a step that emits, or touches
\* a buffer or a timer, is not processChange on a suppressed document, and a
\* step that emits, or touches a buffer or starts opening a file, is not
\* processFileChange on one.
C1_NoFeedbackLoop ==
    [][ /\ (emitted' # <<>> \/ buffers' # buffers \/ flushTimers' # flushTimers)
              => \A doc \in Docs, change \in Changes :
                    UriString(doc) \in suppressedDocs => ~ProcessChange(doc, change)
        /\ (emitted' # <<>> \/ buffers' # buffers \/ fileOpens' # fileOpens)
              => \A doc \in FileDocs :
                    UriString(doc) \in suppressedDocs => ~ProcessFileChange(doc) ]_vars

\* C1's case: a change on a suppressed document was skipped while a buffer
\* of its file was pending
C1_Witness ==
    /\ log = << <<"CHANGE", TRUE>>, <<"SKIP: suppressed">> >>
    /\ buffers # <<>>
    /\ emitted = <<>>

ShortTexts == {T4, T5, T6}

\* C3. Changes further apart than the coalescing window are never fused: a
\* buffer-worthy change arriving COALESCE_MS or more after the previous one of
\* its file (or with none before it) starts a buffer of change count 1 holding
\* its text alone; what the call emits is at most one result, carrying the
\* previous burst's text only; and a burst that is a single change of 4, 5 or
\* 6 characters yields no result, flushed by the timer or by the next change.
C3_NoFusionAcrossWindow ==
    [][ /\ \A doc \in Docs, change \in Changes :
              ( /\ GetBufferKey(doc) \in DOMAIN run
                      => now - run[GetBufferKey(doc)].last >= COALESCE_MS
                /\ BufferWorthy(doc, change) )
                 => \/ /\ GetBufferKey(doc) \in DOMAIN buffers'
                       /\ buffers'[GetBufferKey(doc)].changeCount = 1
                       /\ buffers'[GetBufferKey(doc)].totalText = change.text
                       /\ Len(emitted') <= 1
                       /\ emitted' # <<>> =>
                             /\ GetBufferKey(doc) \in DOMAIN run
                             /\ run[GetBufferKey(doc)].texts
                                   \notin {<<t>> : t \in ShortTexts}
                             /\ emitted'[1].text =
                                   ConcatAll(run[GetBufferKey(doc)].texts)
                    \/ ~ProcessChange(doc, change)
        /\ \A k \in DOMAIN run :
              run[k].texts \in {<<t>> : t \in ShortTexts}
                 => \/ emitted' = <<>>
                    \/ ~FlushTimerFires(k) ]_vars

\* C3's case: a change arrived after the window while the old buffer was
\* still pending; the old one was flushed and the new one starts at count 1
C3_Witness ==
    /\ Len(log) = 4
    /\ log[2][1] = "FLUSH"
    /\ log[4] = <<"BUFFER START">>
    /\ \E k \in DOMAIN buffers : buffers[k].changeCount = 1

\* C4. An instant large insertion accepted for a file with a pending buffer
\* flushes that buffer first: after the call neither the buffer nor its timer
\* remains, and the instant result is the last one emitted.
C4_InstantFlushesPending ==
    [][ \A doc \in Docs, change \in Changes :
            ( /\ GetBufferKey(doc) \in DOMAIN buffers
              /\ Survives(doc, change)
              /\ IsInstant(change.text) )
               => \/ /\ GetBufferKey(doc) \notin DOMAIN buffers'
                     /\ GetBufferKey(doc) \notin DOMAIN flushTimers'
                     /\ emitted' # <<>>
                     /\ emitted'[Len(emitted')].text = change.text
                  \/ ~ProcessChange(doc, change) ]_vars

----------------------------------------------------------------------------
(* Text documents and the annotation builder *)

\* String.prototype.split('\n'), and the lines of a TextDocument
Split(s) ==
    LET nl == {i \in 1..Len(s) : s[i] = "\n"}
        n == Cardinality(nl)
        pos(k) == IF k = 0 THEN 0
                  ELSE IF k = n + 1 THEN Len(s) + 1
                  ELSE CHOOSE i \in nl : Cardinality({j \in nl : j < i}) = k - 1
    IN  [k \in 1..(n + 1) |-> SubSeq(s, pos(k - 1) + 1, pos(k) - 1)]

\* Array.prototype.join('\n')
RECURSIVE Join(_)
Join(lines) ==
    IF lines = <<>> THEN <<>>
    ELSE IF Len(lines) = 1 THEN lines[1]
    ELSE lines[1] \o <<"\n">> \o Join(Tail(lines))

\* the offset of Position(line, 0)
RECURSIVE OffsetAt(_, _)
OffsetAt(lines, line) ==
    IF line = 0 THEN 0
    ELSE Len(lines[line]) + 1 + OffsetAt(lines, line - 1)

\* TextEditorEdit.insert at an offset
InsertAt(text, off, ins) ==
    SubSeq(text, 1, off) \o ins \o SubSeq(text, off + 1, Len(text))

AI_TOOL_LINE ==
    <<"A","I","_","T","O","O","L",":"," ","G","i","t","H","u","b"," ",
      "C","o","p","i","l","o","t">>

EMPLOYEE_ID_LABEL == <<"E","M","P","L","O","Y","E","E","_","I","D",":"," ">>

\* COMMENT_STYLES[languageId] ?? DEFAULT_STYLE
CommentStyle(languageId) ==
    CASE languageId \in {"html", "xml", "svg"} ->
            [linePrefix |-> <<>>, blockStart |-> <<"<","!","-","-">>,
             blockEnd |-> <<"-","-",">">>]
      [] languageId = "css" ->
            [linePrefix |-> <<>>, blockStart |-> <<"/","*">>, blockEnd |-> <<"*","/">>]
      [] languageId \in {"python", "ruby", "shellscript", "yaml"} ->
            [linePrefix |-> <<"#">>, blockStart |-> <<>>, blockEnd |-> <<>>]
      [] OTHER ->
            [linePrefix |-> <<"/","/">>, blockStart |-> <<>>, blockEnd |-> <<>>]

\* buildAnnotationStart
BuildAnnotationStart(languageId, employeeId) ==
    LET style == CommentStyle(languageId)
        lines == <<ANNOTATION_MARKER, AI_TOOL_LINE, EMPLOYEE_ID_LABEL \o employeeId>>
    IN  IF style.blockStart # <<>> /\ style.blockEnd # <<>>
        THEN Join(<<style.blockStart>>
                  \o [i \in 1..3 |-> <<" ", " ">> \o lines[i]]
                  \o <<style.blockEnd, <<>> >>)
        ELSE Join([i \in 1..3 |-> style.linePrefix \o <<" ">> \o lines[i]]) \o <<"\n">>

\* buildAnnotationEnd
BuildAnnotationEnd(languageId) ==
    LET style == CommentStyle(languageId)
    IN  IF style.blockStart # <<>> /\ style.blockEnd # <<>>
        THEN style.blockStart \o <<" ">> \o ANNOTATION_END_MARKER \o <<" ">>
                \o style.blockEnd \o <<"\n">>
        ELSE style.linePrefix \o <<" ">> \o ANNOTATION_END_MARKER \o <<"\n">>

----------------------------------------------------------------------------
(* AnnotationWriter: the range of the new code *)

\* findNewCodeRange, "Skip annotation markers"
IsMarkerLine(trimmed) ==
    Includes(trimmed, ANNOTATION_MARKER) \/ Includes(trimmed, ANNOTATION_END_MARKER)

\* findNewCodeRange, oldLineCounts.get(trimmed) ?? 0
OldLineCount(oldLines, trimmed) ==
    Cardinality({k \in 1..Len(oldLines) : Trim(oldLines[k]) = trimmed})

\* findNewCodeRange, usedOld.get(trimmed) ?? 0
UsedCount(used, trimmed) ==
    Cardinality({k \in 1..Len(used) : used[k] = trimmed})

\* a slip: a new line does not move lastNew once it is set
RECURSIVE ScanNewLinesFirstOnly(_, _, _, _)
ScanNewLinesFirstOnly(currentLines, oldLines, i, acc) ==
    IF i >= Len(currentLines) THEN acc
    ELSE LET trimmed == Trim(currentLines[i + 1])
         IN  IF Len(trimmed) = 0
                THEN ScanNewLinesFirstOnly(currentLines, oldLines, i + 1, acc)
             ELSE IF IsMarkerLine(trimmed)
                THEN ScanNewLinesFirstOnly(currentLines, oldLines, i + 1, acc)
             ELSE IF UsedCount(acc.used, trimmed) < OldLineCount(oldLines, trimmed)
                THEN ScanNewLinesFirstOnly(currentLines, oldLines, i + 1,
                        [acc EXCEPT !.used = Append(@, trimmed)])
             ELSE ScanNewLinesFirstOnly(currentLines, oldLines, i + 1,
                        [acc EXCEPT !.firstNew = IF @ = -1 THEN i ELSE @,
                                    !.lastNew = IF @ = -1 THEN i ELSE @])

\* findNewCodeRange, the loop over currentLines from index i on
RECURSIVE ScanNewLines(_, _, _, _)
ScanNewLines(currentLines, oldLines, i, acc) ==
    IF i >= Len(currentLines) THEN acc
    ELSE LET trimmed == Trim(currentLines[i + 1])
         IN  IF Len(trimmed) = 0
                THEN ScanNewLines(currentLines, oldLines, i + 1, acc)
             ELSE IF IsMarkerLine(trimmed)
                THEN ScanNewLines(currentLines, oldLines, i + 1, acc)
             ELSE IF UsedCount(acc.used, trimmed) < OldLineCount(oldLines, trimmed)
                THEN ScanNewLines(currentLines, oldLines, i + 1,
                        [acc EXCEPT !.used = Append(@, trimmed)])
             ELSE ScanNewLines(currentLines, oldLines, i + 1,
                        [acc EXCEPT !.firstNew = IF @ = -1 THEN i ELSE @,
                                    !.lastNew = i])

\* Array.prototype.filter(l => l.trim().length > 0)
RECURSIVE NonBlank(_)
NonBlank(lines) ==
    IF lines = <<>> THEN <<>>
    ELSE IF Len(Trim(Head(lines))) > 0 THEN <<Head(lines)>> \o NonBlank(Tail(lines))
    ELSE NonBlank(Tail(lines))

\* a slip: a text that is not found is taken to be the first line
FindByInsertedTextFirstLine(currentLines, insertedText) ==
    [startLine |-> 0, endLine |-> 1]

\* findByInsertedText
FindByInsertedText(currentLines, insertedText) ==
    LET insertedLines == NonBlank(Split(insertedText))
        first == Trim(insertedLines[1])
        last == Trim(insertedLines[Len(insertedLines)])
        firstAt == {i \in 0..(Len(currentLines) - 1) : Trim(currentLines[i + 1]) = first}
        startLine == CHOOSE i \in firstAt : \A j \in firstAt : i <= j
        lastAt == {i \in startLine..(Len(currentLines) - 1) :
                      Trim(currentLines[i + 1]) = last}
    IN  IF Len(insertedLines) = 0 THEN [startLine |-> 0, endLine |-> 0]
        ELSE IF firstAt = {} THEN [startLine |-> 0, endLine |-> 0]
        ELSE IF lastAt = {} THEN [startLine |-> startLine,
                                  endLine |-> startLine + Len(insertedLines)]
        ELSE [startLine |-> startLine, endLine |-> SeqMax(lastAt) + 1]

\* a slip: with an empty snapshot the range is looked up by the inserted text
FindNewCodeRangeByText(currentLines, old, insertedText) ==
    IF Len(Trim(old)) = 0
    THEN FindByInsertedText(currentLines, insertedText)
    ELSE LET acc == ScanNewLines(currentLines, Split(old), 0,
                        [used |-> <<>>, firstNew |-> -1, lastNew |-> -1])
         IN  IF acc.firstNew = -1
             THEN FindByInsertedText(currentLines, insertedText)
             ELSE [startLine |-> acc.firstNew, endLine |-> acc.lastNew + 1]

\* a slip: the test for an empty snapshot is left out
FindNewCodeRangeNoBootstrap(currentLines, old, insertedText) ==
    LET acc == ScanNewLines(currentLines, Split(old), 0,
                   [used |-> <<>>, firstNew |-> -1, lastNew |-> -1])
    IN  IF acc.firstNew = -1
        THEN FindByInsertedText(currentLines, insertedText)
        ELSE [startLine |-> acc.firstNew, endLine |-> acc.lastNew + 1]

\* findNewCodeRange
FindNewCodeRange(currentLines, old, insertedText) ==
    IF Len(Trim(old)) = 0
    THEN [startLine |-> 0, endLine |-> Len(currentLines)]
    ELSE LET acc == ScanNewLines(currentLines, Split(old), 0,
                        [used |-> <<>>, firstNew |-> -1, lastNew |-> -1])
         IN  IF acc.firstNew = -1
             THEN FindByInsertedText(currentLines, insertedText)
             ELSE [startLine |-> acc.firstNew, endLine |-> acc.lastNew + 1]

----------------------------------------------------------------------------
(* AnnotationWriter: SpecWriter *)

COOLDOWN_MS == 2000
\* the delay of the timer doAnnotate sets in its finally block
GRACE_MS == 2000

\* the promises annotate may create
JobIds == {1, 2}
\* at most this many lines are inserted into the file
MaxInserts == 3
\* the writer's runs are cut off at StartTime + WriterSpan
WriterSpan == 2000

WriterDeltas == {2000}

\* doc.languageId of the file, and the employee id of the configuration
LanguageId == "typescript"
EmployeeId == <<"E", "1">>

\* the n-th line inserted into the file
NewLine(n) == <<(<<"x", "y", "z", "w">>)[n]>>

\* Map.prototype.get(k) ?? d
MapGet(m, k, d) == IF k \in DOMAIN m THEN m[k] ELSE d

\* isRangeAnnotated, the loop that collects the blocks, from line i on
RECURSIVE BlocksFrom(_, _, _)
BlocksFrom(lines, i, blockStart) ==
    IF i >= Len(lines) THEN {}
    ELSE IF Includes(lines[i + 1], ANNOTATION_MARKER) /\ blockStart = -1
        THEN BlocksFrom(lines, i + 1, i)
    ELSE IF Includes(lines[i + 1], ANNOTATION_END_MARKER) /\ blockStart # -1
        THEN {[start |-> blockStart, end |-> i]} \cup BlocksFrom(lines, i + 1, -1)
    ELSE BlocksFrom(lines, i + 1, blockStart)

\* a slip: the test for a start marker just above the range is left out
IsRangeAnnotatedInside(lines, startLine, endLine) ==
    \E b \in BlocksFrom(lines, 0, -1) :
        startLine >= b.start /\ endLine <= b.end + 1

\* a slip: the test of the range against the blocks is left out
IsRangeAnnotatedNever(lines, startLine, endLine) == FALSE

\* isRangeAnnotated
IsRangeAnnotated(lines, startLine, endLine) ==
    \/ \E b \in BlocksFrom(lines, 0, -1) :
          startLine >= b.start /\ endLine <= b.end + 1
    \/ \E i \in (IF startLine - 4 > 0 THEN startLine - 4 ELSE 0)
                ..(IF Len(lines) - 1 < startLine THEN Len(lines) - 1 ELSE startLine) :
          Includes(lines[i + 1], ANNOTATION_MARKER)

\* a slip: the start block goes in first and the end block is placed by its
\* offset in the text before the edit
ApplyAnnotationStartFirst(text, startLine, endLine) ==
    LET lines == Split(text)
        startBlock == BuildAnnotationStart(LanguageId, EmployeeId)
        endBlock == BuildAnnotationEnd(LanguageId)
        withStart == InsertAt(text, OffsetAt(lines, startLine), startBlock)
    IN  IF endLine < Len(lines)
        THEN InsertAt(withStart, OffsetAt(lines, endLine), endBlock)
        ELSE InsertAt(withStart, Len(withStart), <<"\n">> \o endBlock)

\* doAnnotate, the callback handed to editor.edit, and the edit applied
ApplyAnnotation(text, startLine, endLine) ==
    LET lines == Split(text)
        startBlock == BuildAnnotationStart(LanguageId, EmployeeId)
        endBlock == BuildAnnotationEnd(LanguageId)
        withEnd == IF endLine < Len(lines)
                   THEN InsertAt(text, OffsetAt(lines, endLine), endBlock)
                   ELSE InsertAt(text, Len(text), <<"\n">> \o endBlock)
    IN  InsertAt(withEnd, OffsetAt(lines, startLine), startBlock)

\* a slip: the finally block sets no timer
SettleNoTimer(j, timer) ==
    [k \in 1..Len(jobs) |->
        IF k = j THEN [jobs[k] EXCEPT !.pc = "done", !.timer = -1,
                                      !.text = <<>>, !.prev = 0, !.at = 0,
                                      !.startLine = -1, !.endLine = -1]
        ELSE IF jobs[k].prev = j /\ jobs[k].pc = "queued"
             THEN [jobs[k] EXCEPT !.pc = "opening"]
        ELSE jobs[k]]

\* a slip: the jobs chained on the promise of a job whose doAnnotate ended
\* early or threw are not started
SettleAlone(j, timer) ==
    [k \in 1..Len(jobs) |->
        IF k = j THEN [jobs[k] EXCEPT !.pc = "done", !.timer = timer,
                                      !.resultDoc = IF timer = -1 THEN <<>> ELSE @,
                                      !.text = <<>>, !.prev = 0, !.at = 0,
                                      !.startLine = -1, !.endLine = -1]
        ELSE IF jobs[k].prev = j /\ jobs[k].pc = "queued" /\ jobs[j].pc = "saving"
             THEN [jobs[k] EXCEPT !.pc = "opening"]
        ELSE jobs[k]]

\* the promise of job j settles: doAnnotate has returned, its finally block
\* has set the grace timer (timer, -1 for none), and the jobs chained on the
\* promise start.  What the job no longer needs is forgotten.
Settle(j, timer) ==
    [k \in 1..Len(jobs) |->
        IF k = j THEN [jobs[k] EXCEPT !.pc = "done", !.timer = timer,
                                      !.resultDoc = IF timer = -1 THEN <<>> ELSE @,
                                      !.text = <<>>, !.prev = 0, !.at = 0,
                                      !.startLine = -1, !.endLine = -1]
        ELSE IF jobs[k].prev = j /\ jobs[k].pc = "queued"
             THEN [jobs[k] EXCEPT !.pc = "opening"]
        ELSE jobs[k]]

\* AnnotationWriter.annotate for a result on doc carrying text
AnnotateWith(doc, text) ==
    /\ Len(jobs) + 1 \in JobIds
    /\ inserts >= 1
    /\ LET key == UriString(ResolveRealFile(doc))
           prev == MapGet(locks, key, 0)
           job == [key |-> key,
                   resultDoc |-> UriString(doc),
                   text |-> text,
                   prev |-> prev,
                   pc |-> IF prev = 0 THEN "opening"
                          ELSE IF jobs[prev].pc = "done" THEN "opening"
                          ELSE "queued",
                   startLine |-> -1,
                   endLine |-> -1,
                   timer |-> -1,
                   at |-> now]
       IN  IF now - MapGet(cooldowns, key, 0) < COOLDOWN_MS
           THEN /\ log' = <<<<"WRITER: cooldown active">>>>
                /\ UNCHANGED <<jobs, locks>>
           ELSE /\ log' = <<>>
                /\ jobs' = Append(jobs, job)
                /\ locks' = MapSet(locks, key, Len(jobs) + 1)
    /\ UNCHANGED <<now, suppressedDocs, docOpen, content, snapshots, cooldowns, inserts,
                   edits>>
    /\ UNCHANGED <<config, clipVars, buffers, flushTimers, fileOpens,
                   emitted, run, diffVars>>

\* AnnotationWriter.annotate for a result on doc carrying the last inserted line
Annotate(doc) == AnnotateWith(doc, NewLine(inserts))

\* extension.ts, openWatcher: the snapshot taken when a document is opened
OpenWatcher(doc) ==
    IF doc.scheme = "file" THEN MapSet(snapshots, UriString(doc), content)
    ELSE snapshots

\* doAnnotate from the point openTextDocument settles to its next await; a
\* document that was closed is opened by the call, which openWatcher sees
\* before the call returns
OpenDone(j, opened) ==
    /\ jobs[j].pc = "opening"
    /\ LET lines == Split(content)
           snaps == IF opened /\ ~docOpen THEN OpenWatcher(FileA) ELSE snapshots
           r == FindNewCodeRange(lines, MapGet(snaps, jobs[j].key, <<>>),
                                 jobs[j].text)
       IN  /\ snapshots' = snaps
           /\ docOpen' = IF opened THEN TRUE ELSE docOpen
           /\ IF ~opened
              THEN /\ jobs' = Settle(j, -1)
                   /\ log' = <<<<"WRITER: cannot open">>>>
                   /\ UNCHANGED suppressedDocs
              ELSE IF r.startLine >= r.endLine
              THEN /\ jobs' = Settle(j, -1)
                   /\ log' = <<<<"WRITER: no new code range">>>>
                   /\ UNCHANGED suppressedDocs
              ELSE IF IsRangeAnnotated(lines, r.startLine, r.endLine)
              THEN /\ jobs' = Settle(j, -1)
                   /\ log' = <<<<"WRITER: new code", r.startLine, r.endLine>>,
                               <<"WRITER: already annotated">>>>
                   /\ UNCHANGED suppressedDocs
              ELSE /\ jobs' = [jobs EXCEPT ![j].pc = "showing",
                                           ![j].text = <<>>,
                                           ![j].startLine = r.startLine,
                                           ![j].endLine = r.endLine]
                   /\ log' = <<<<"WRITER: new code", r.startLine, r.endLine>>>>
                   /\ suppressedDocs' =
                         suppressedDocs \cup {jobs[j].key, jobs[j].resultDoc}
    /\ UNCHANGED <<now, content, cooldowns, locks, inserts, edits>>
    /\ UNCHANGED <<config, clipVars, buffers, flushTimers, fileOpens,
                   emitted, run, diffVars>>

\* a slip: doAnnotate tests the cooldown again before its edit
EditDoneRechecks(j, success) ==
    /\ jobs[j].pc = "showing"
    /\ success => docOpen
    /\ IF success /\ ~(now - MapGet(cooldowns, jobs[j].key, 0) < COOLDOWN_MS)
       THEN /\ content' = ApplyAnnotation(content, jobs[j].startLine, jobs[j].endLine)
            /\ cooldowns' = MapSet(cooldowns, jobs[j].key, now)
            /\ jobs' = [jobs EXCEPT ![j].pc = "saving"]
            /\ edits' = Append(edits, [key |-> jobs[j].key, at |-> jobs[j].at])
            /\ log' = <<>>
       ELSE /\ jobs' = Settle(j, now + GRACE_MS)
            /\ log' = <<<<"WRITER: edit failed">>>>
            /\ UNCHANGED <<content, cooldowns, edits>>
    /\ UNCHANGED <<now, suppressedDocs, docOpen, snapshots, locks, inserts>>
    /\ UNCHANGED <<config, clipVars, buffers, flushTimers, fileOpens,
                   emitted, run, diffVars>>

\* doAnnotate from the point showTextDocument settles: the edit, and what
\* follows it up to doc.save() or, on failure, to the end
EditDone(j, success) ==
    /\ jobs[j].pc = "showing"
    /\ success => docOpen
    /\ IF success
       THEN /\ content' = ApplyAnnotation(content, jobs[j].startLine, jobs[j].endLine)
            /\ cooldowns' = MapSet(cooldowns, jobs[j].key, now)
            /\ jobs' = [jobs EXCEPT ![j].pc = "saving"]
            /\ edits' = Append(edits, [key |-> jobs[j].key, at |-> jobs[j].at])
            /\ log' = <<>>
       ELSE /\ jobs' = Settle(j, now + GRACE_MS)
            /\ log' = <<<<"WRITER: edit failed">>>>
            /\ UNCHANGED <<content, cooldowns, edits>>
    /\ UNCHANGED <<now, suppressedDocs, docOpen, snapshots, locks, inserts>>
    /\ UNCHANGED <<config, clipVars, buffers, flushTimers, fileOpens,
                   emitted, run, diffVars>>

\* a slip: the snapshot is not refreshed after the save
SaveDoneKeepsSnapshot(j, saved) ==
    /\ jobs[j].pc = "saving"
    /\ saved => docOpen
    /\ log' = IF saved THEN <<<<"WRITER: wrapped", jobs[j].startLine, jobs[j].endLine>>>>
              ELSE <<<<"WRITER: error">>>>
    /\ jobs' = Settle(j, now + GRACE_MS)
    /\ UNCHANGED <<now, suppressedDocs, docOpen, content, snapshots, cooldowns,
                   locks, inserts, edits>>
    /\ UNCHANGED <<config, clipVars, buffers, flushTimers, fileOpens,
                   emitted, run, diffVars>>

\* doAnnotate from the point doc.save() settles
SaveDone(j, saved) ==
    /\ jobs[j].pc = "saving"
    /\ saved => docOpen
    /\ snapshots' = IF saved THEN MapSet(snapshots, jobs[j].key, content)
                    ELSE snapshots
    /\ log' = IF saved THEN <<<<"WRITER: wrapped", jobs[j].startLine, jobs[j].endLine>>>>
              ELSE <<<<"WRITER: error">>>>
    /\ jobs' = Settle(j, now + GRACE_MS)
    /\ UNCHANGED <<now, suppressedDocs, docOpen, content, cooldowns, locks, inserts,
                   edits>>
    /\ UNCHANGED <<config, clipVars, buffers, flushTimers, fileOpens,
                   emitted, run, diffVars>>

\* the callback of the timer set in doAnnotate's finally block
GraceTimerFires(j) ==
    /\ jobs[j].timer # -1
    /\ jobs[j].timer <= now
    /\ suppressedDocs' = suppressedDocs \ {jobs[j].key, jobs[j].resultDoc}
    /\ jobs' = [jobs EXCEPT ![j].timer = -1, ![j].resultDoc = <<>>]
    /\ log' = <<>>
    /\ UNCHANGED <<now, docOpen, content, snapshots, cooldowns, locks, inserts, edits>>
    /\ UNCHANGED <<config, clipVars, buffers, flushTimers, fileOpens,
                   emitted, run, diffVars>>

\* a slip: the state of every file is purged
PurgeAll(uri) ==
    /\ locks' = <<>>
    /\ cooldowns' = <<>>
    /\ snapshots' = <<>>
    /\ suppressedDocs' = {}

\* AnnotationWriter.onDocumentClosed(uri)
PurgeOnClose(uri) ==
    /\ locks' = MapDelete(locks, uri)
    /\ cooldowns' = MapDelete(cooldowns, uri)
    /\ snapshots' = MapDelete(snapshots, uri)
    /\ suppressedDocs' = suppressedDocs \ {uri}

\* extension.ts, docCloseWatcher: the document is closed, and
\* AnnotationWriter.onDocumentClosed(doc.uri.toString())
OnDocumentClosed(doc) ==
    /\ docOpen
    /\ docOpen' = FALSE
    /\ PurgeOnClose(UriString(doc))
    /\ log' = <<>>
    /\ UNCHANGED <<now, content, jobs, inserts, edits>>
    /\ UNCHANGED <<config, clipVars, buffers, flushTimers, fileOpens,
                   emitted, run, diffVars>>

\* the file is opened in an editor again: openWatcher
OnDocumentOpened(doc) ==
    /\ ~docOpen
    /\ docOpen' = TRUE
    /\ snapshots' = OpenWatcher(doc)
    /\ log' = <<>>
    /\ UNCHANGED <<now, suppressedDocs, content, cooldowns, locks, jobs, inserts, edits>>
    /\ UNCHANGED <<config, clipVars, buffers, flushTimers, fileOpens,
                   emitted, run, diffVars>>

\* a line is inserted into the file in its editor: the first, third, ... below
\* its last line, the others above its first line
InsertText ==
    /\ docOpen
    /\ inserts < MaxInserts
    /\ content' = IF inserts % 2 = 1 THEN NewLine(inserts + 1) \o <<"\n">> \o content
                  ELSE content \o <<"\n">> \o NewLine(inserts + 1)
    /\ inserts' = inserts + 1
    /\ log' = <<>>
    /\ UNCHANGED <<now, suppressedDocs, docOpen, snapshots, cooldowns, locks, jobs,
                   edits>>
    /\ UNCHANGED <<config, clipVars, buffers, flushTimers, fileOpens,
                   emitted, run, diffVars>>

\* the clock
TickW(d) ==
    /\ now + d <= StartTime + WriterSpan
    /\ now' = now + d
    /\ log' = <<>>
    /\ UNCHANGED <<suppressedDocs, writerVars, diffVars>>
    /\ UNCHANGED <<config, clipVars, buffers, flushTimers, fileOpens,
                   emitted, run>>

\* the file is open with one line of code, and its snapshot was taken
InitWriter ==
    /\ now = StartTime
    /\ suppressedDocs = {}
    /\ EngineInit
    /\ DiffIdle
    /\ docOpen = TRUE
    /\ content = <<"a">>
    /\ snapshots = MapSet(<<>>, UriString(FileA), <<"a">>)
    /\ cooldowns = <<>>
    /\ locks = <<>>
    /\ jobs = <<>>
    /\ inserts = 0
    /\ edits = <<>>

NextWriter ==
    \/ \E doc \in FileDocs : Annotate(doc)
    \/ \E j \in 1..Len(jobs), opened \in BOOLEAN : OpenDone(j, opened)
    \/ \E j \in 1..Len(jobs), success \in BOOLEAN : EditDone(j, success)
    \/ \E j \in 1..Len(jobs), saved \in BOOLEAN : SaveDone(j, saved)
    \/ \E j \in 1..Len(jobs) : GraceTimerFires(j)
    \/ \E doc \in FileDocs : OnDocumentClosed(doc)
    \/ \E doc \in FileDocs : OnDocumentOpened(doc)
    \/ InsertText
    \/ \E d \in WriterDeltas : TickW(d)

SpecWriter == InitWriter /\ [][NextWriter]_vars

----------------------------------------------------------------------------
(* Claims about the annotation writer, checked under SpecWriter *)

\* doAnnotate has started for job j and has not returned
InFlight(j) == jobs[j].pc \in {"opening", "showing", "saving"}

\* C5. Serialization: of two jobs of one file key at most one is between its
\* start and its completion, and the later-queued one has not started while
\* the earlier one has not completed.
C5_Serialized ==
    \A i, j \in 1..Len(jobs) :
        (i < j /\ jobs[i].key = jobs[j].key)
           => /\ ~(InFlight(i) /\ InFlight(j))
              /\ jobs[j].pc # "queued" => jobs[i].pc = "done"

\* C6. Cooldown: of two results for one file passed to annotate within
\* COOLDOWN_MS of each other, at most one leads to a successful edit.
C6_Cooldown ==
    \A m, n \in 1..Len(edits) :
        (m < n /\ edits[m].key = edits[n].key)
           => ~( edits[m].at - edits[n].at < COOLDOWN_MS
                 /\ edits[n].at - edits[m].at < COOLDOWN_MS )

\* C7. SuppressionSet: from the moment a job adds the identities of its file
\* to suppressedDocs until its grace timer fires, they are members of the set.
C7_SuppressedThroughGrace ==
    \A j \in 1..Len(jobs) :
        (jobs[j].pc \in {"showing", "saving"} \/ jobs[j].timer # -1)
           => {jobs[j].key, jobs[j].resultDoc} \subseteq suppressedDocs

\* the marker lines from line i on (1-based) form pairs, depth telling
\* whether a start marker is open
RECURSIVE PairedFrom(_, _, _)
PairedFrom(lines, i, depth) ==
    IF i > Len(lines) THEN depth = 0
    ELSE IF Includes(lines[i], ANNOTATION_MARKER)
        THEN depth = 0 /\ PairedFrom(lines, i + 1, 1)
    ELSE IF Includes(lines[i], ANNOTATION_END_MARKER)
        THEN depth = 1 /\ PairedFrom(lines, i + 1, 0)
    ELSE PairedFrom(lines, i + 1, depth)

\* C8. No nested or overlapping blocks: the marker lines of the file form
\* matched pairs, no start marker between a start marker and its end marker.
C8_WellNested == PairedFrom(Split(content), 1, 0)

\* lines s and e (0-based) are a start marker and the end marker that closes
\* it, and the range [startLine, endLine) lies between them
PairAround(lines, startLine, endLine) ==
    \E s, e \in 0..(Len(lines) - 1) :
        /\ s < e
        /\ Includes(lines[s + 1], ANNOTATION_MARKER)
        /\ Includes(lines[e + 1], ANNOTATION_END_MARKER)
        /\ \A k \in (s + 1)..(e - 1) : ~IsMarkerLine(lines[k + 1])
        /\ s < startLine
        /\ endLine <= e

\* the range doAnnotate resolves for job j in the current state
ResolvedRange(j) ==
    FindNewCodeRange(Split(content), MapGet(snapshots, jobs[j].key, <<>>),
                     jobs[j].text)

\* C9. Idempotence: when the range doAnnotate resolves for a result lies
\* inside a start/end marker pair of the file, doAnnotate ends there: no
\* edit, and the cooldown table, the snapshots and the suppression set are
\* as they were.
C9_Idempotent ==
    [][ \A j \in 1..Len(jobs) :
            ( /\ jobs[j].pc = "opening"
              /\ ResolvedRange(j).startLine < ResolvedRange(j).endLine
              /\ PairAround(Split(content), ResolvedRange(j).startLine,
                            ResolvedRange(j).endLine) )
               => \/ /\ content' = content
                     /\ cooldowns' = cooldowns
                     /\ snapshots' = snapshots
                     /\ suppressedDocs' = suppressedDocs
                     /\ edits' = edits
                     /\ jobs'[j].pc = "done"
                     /\ jobs'[j].timer = -1
                  \/ ~OpenDone(j, TRUE) ]_vars

\* C9's case: doAnnotate found its range inside a pair and returned
C9_Witness ==
    /\ Len(log) = 2
    /\ log[2] = <<"WRITER: already annotated">>
    /\ PairAround(Split(content), log[1][2], log[1][3])

----------------------------------------------------------------------------
(* findNewCodeRange on its own: SpecDiff *)

\* the snapshot has at most this many lines of code
MaxOldLines == 3
\* at most this many lines are inserted
MaxBlockLines == 2

OldLineSet == {<<"a">>, <<"b">>, <<"c">>}
BlockLineSet == {<<"X">>, <<"Y">>, <<" ">>, <<"a">>}

SeqsUpTo(S, n) == UNION {[1..k -> S] : k \in 1..n}

\* the snapshots of a file that was empty or held white space only
BlankTexts == {<<>>, <<" ">>, <<"\n">>, <<" ", "\n", "\t">>}

\* the snapshots: some lines of code, with or without a final newline, and
\* the blank ones
DiffOldTexts ==
    {Join(ls) : ls \in SeqsUpTo(OldLineSet, MaxOldLines)}
       \cup {Join(ls) \o <<"\n">> : ls \in SeqsUpTo(OldLineSet, MaxOldLines)}
       \cup BlankTexts

\* result.text as doAnnotate may receive it: the inserted lines, nothing, or
\* some other text
ReportedTexts == {Join(block), <<>>, <<"Y">>, <<"a", "\n", "b">>}

\* the lines b inserted before line p of lines
InsertLines(lines, p, b) ==
    SubSeq(lines, 1, p) \o b \o SubSeq(lines, p + 1, Len(lines))

InitDiff ==
    /\ now = StartTime
    /\ suppressedDocs = {}
    /\ EngineInit
    /\ WriterIdle
    /\ oldText \in DiffOldTexts
    /\ curText = oldText
    /\ block = <<>>
    /\ blockAt = 0
    /\ range = <<>>

\* the edit between the snapshot and the call: b is inserted before line p
InsertBlock(b, p) ==
    /\ block = <<>>
    /\ range = <<>>
    /\ p <= Len(Split(oldText))
    /\ curText' = Join(InsertLines(Split(oldText), p, b))
    /\ block' = b
    /\ blockAt' = p
    /\ UNCHANGED <<oldText, range>>
    /\ UNCHANGED <<now, suppressedDocs, engineVars, run, writerVars>>

\* doAnnotate, the call of findNewCodeRange
ResolveRange(insertedText) ==
    /\ range = <<>>
    /\ range' = <<FindNewCodeRange(Split(curText), oldText, insertedText)>>
    /\ UNCHANGED <<oldText, curText, block, blockAt>>
    /\ UNCHANGED <<now, suppressedDocs, engineVars, run, writerVars>>

NextDiff ==
    \/ \E b \in SeqsUpTo(BlockLineSet, MaxBlockLines), p \in 0..(MaxOldLines + 1) :
          InsertBlock(b, p)
    \/ \E insertedText \in ReportedTexts : ResolveRange(insertedText)

SpecDiff == InitDiff /\ [][NextDiff]_vars

\* the inserted lines are none of the snapshot's lines and hold no marker
BlockIsNew ==
    /\ Len(Trim(oldText)) > 0
    /\ block # <<>>
    /\ \A i \in 1..Len(block) :
          /\ ~IsMarkerLine(block[i])
          /\ \A k \in 1..Len(Split(oldText)) :
                Trim(block[i]) # Trim(Split(oldText)[k])

\* the range of the inserted lines
BlockRange == [startLine |-> blockAt, endLine |-> blockAt + Len(block)]

\* C10. Diff correctness: for a non-blank snapshot and a current text got
\* from it by inserting one contiguous block of non-marker lines, none equal
\* after trimming to a snapshot line and none blank after trimming,
\* findNewCodeRange returns exactly [index of the first inserted line, index
\* of the last inserted line + 1).
C10_DiffCorrect ==
    ( /\ range # <<>>
      /\ BlockIsNew
      /\ \A i \in 1..Len(block) : Len(Trim(block[i])) > 0 )
       => range[1] = BlockRange

\* C10's case: old "a\nb\nc\n" and new "a\nb\nX\nY\nc\n" give [2,4)
C10_Witness ==
    /\ oldText = <<"a","\n","b","\n","c","\n">>
    /\ curText = <<"a","\n","b","\n","X","\n","Y","\n","c","\n">>
    /\ range = <<[startLine |-> 2, endLine |-> 4]>>

\* C10 as stated, the inserted lines being non-empty only
C10_AsStated ==
    ( /\ range # <<>>
      /\ BlockIsNew
      /\ \A i \in 1..Len(block) : Len(block[i]) > 0 )
       => range[1] = BlockRange

\* C11. Duplicate handling: for a non-blank snapshot and a current text got
\* from it by inserting one contiguous block of non-marker lines, none blank
\* after trimming, some of which may equal snapshot lines or each other,
\* findNewCodeRange returns the range of the inserted block: a range of as
\* many lines as the block, outside of which the current lines are the
\* snapshot's lines (where the text leaves the place of the block open, any
\* such place is accepted).
C11_DuplicatesHandled ==
    ( /\ range # <<>>
      /\ Len(Trim(oldText)) > 0
      /\ block # <<>>
      /\ \A i \in 1..Len(block) :
            ~IsMarkerLine(block[i]) /\ Len(Trim(block[i])) > 0 )
       => /\ range[1].endLine - range[1].startLine = Len(block)
          /\ range[1].startLine \in 0..Len(Split(oldText))
          /\ SubSeq(Split(curText), 1, range[1].startLine)
                \o SubSeq(Split(curText), range[1].endLine + 1, Len(Split(curText)))
                   = Split(oldText)

\* C12. Empty-file bootstrap: when the snapshot is empty or white space only
\* and the current file is not empty, findNewCodeRange returns [0, lineCount),
\* whatever the reported inserted text.
C12_EmptyFileBootstrap ==
    ( /\ range # <<>>
      /\ Len(Trim(oldText)) = 0
      /\ curText # <<>> )
       => range[1] = [startLine |-> 0, endLine |-> Len(Split(curText))]

\* C12's case: the snapshot is white space, two lines were inserted, and the
\* whole file of three lines is the range
C12_Witness ==
    /\ oldText = <<" ">>
    /\ block = <<<<"X">>, <<"Y">>>>
    /\ Len(Split(curText)) = 3
    /\ range = <<[startLine |-> 0, endLine |-> 3]>>

\* the lines of a block the builder returns, which ends with a line break
BlockLines(blockText) == SubSeq(Split(blockText), 1, Len(Split(blockText)) - 1)

\* the lines of text that hold marker
MarkerLines(text, marker) ==
    LET lines == Split(text)
    IN  {i \in 1..Len(lines) : Includes(lines[i], marker)}

\* the lines of a file after an annotation of [startLine, endLine)
Annotated(lines, startLine, endLine) ==
    LET startLines == BlockLines(BuildAnnotationStart(LanguageId, EmployeeId))
        endLines == BlockLines(BuildAnnotationEnd(LanguageId))
    IN  IF endLine < Len(lines)
        THEN SubSeq(lines, 1, startLine) \o startLines
                \o SubSeq(lines, startLine + 1, endLine) \o endLines
                \o SubSeq(lines, endLine + 1, Len(lines))
        ELSE SubSeq(lines, 1, startLine) \o startLines
                \o SubSeq(lines, startLine + 1, Len(lines)) \o endLines
                \o << <<>> >>

\* C13. Marker pairing: a successful annotation write inserts one start
\* block and one end block in one edit, both placed against the document
\* before the edit: afterwards the three lines of the start block stand
\* right above the old line startLine and the end line right below the old
\* line endLine - 1 (after the last line, behind a line break, when endLine
\* >= lineCount).  No step leaves the file with more start markers than end
\* markers or the reverse.
C13_MarkerPairing ==
    [][ content' # content
          => /\ Cardinality(MarkerLines(content', ANNOTATION_MARKER))
                  = Cardinality(MarkerLines(content', ANNOTATION_END_MARKER))
             /\ \A j \in 1..Len(jobs) :
                   jobs[j].pc = "showing"
                      => \/ /\ Split(content') =
                                  Annotated(Split(content), jobs[j].startLine,
                                            jobs[j].endLine)
                            /\ Cardinality(MarkerLines(content', ANNOTATION_MARKER))
                                  = Cardinality(MarkerLines(content, ANNOTATION_MARKER)) + 1
                            /\ Cardinality(MarkerLines(content', ANNOTATION_END_MARKER))
                                  = Cardinality(MarkerLines(content, ANNOTATION_END_MARKER)) + 1
                         \/ ~EditDone(j, TRUE) ]_vars

\* C13's case: the line x below the last line was wrapped, the end block
\* appended behind a line break
C13_Witness ==
    /\ \E j \in 1..Len(jobs) : jobs[j].pc = "saving"
    /\ Split(content) =
          << <<"a">> >> \o BlockLines(BuildAnnotationStart(LanguageId, EmployeeId))
             \o << <<"x">> >> \o BlockLines(BuildAnnotationEnd(LanguageId))
             \o << <<>> >>

\* C14. Per-file ordering: of two accepted results for one file, the job of
\* the one annotate received first has completed before the job of the other
\* starts.
C14_PerFileOrder ==
    \A i, j \in 1..Len(jobs) :
        (i < j /\ jobs[i].key = jobs[j].key /\ jobs[j].pc # "queued")
           => jobs[i].pc = "done"

----------------------------------------------------------------------------
(* The reject chain with the clipboard detector: SpecRules *)

\* a second file, whose name differs from FileA's in case only
FileLowerA == [scheme |-> "file", fileName |-> <<"/", "a">>]

RuleDocs == {FileA, FileLowerA}

\* a typed character, an auto-indent, a completion of 8 characters, a pasted
\* word and a large block
TIndent == <<" ", " ", " ">>
T8 == Rep("e", 8)
TWord == Rep("p", 4)

RuleChanges ==
    { [text |-> T1,      rangeLength |-> 0, line |-> 0],
      [text |-> TIndent, rangeLength |-> 0, line |-> 1],
      [text |-> T8,      rangeLength |-> 0, line |-> 0],
      [text |-> TWord,   rangeLength |-> 0, line |-> 2],
      [text |-> TBlock,  rangeLength |-> 0, line |-> 3] }

\* what vscode.env.clipboard.readText() may return
ClipTexts == {TWord \o <<" ">>, <<"\n">> \o TBlock}

\* the runs with the clipboard start when the extension has been idle for
\* RuleStart ms and are cut off at StartTime + RuleSpan
RuleStart == 1325
RuleSpan == 1850
RuleDeltas == {175}
\* the timers of handlePaste that may be pending together
PasteSlots == {1}

\* handlePaste up to its first await
HandlePaste ==
    /\ pastePc = "idle"
    /\ Cardinality(pasteTimers) + 1 \in PasteSlots
    /\ pasteFlag' = TRUE
    /\ pastePc' = "reading"
    /\ emitted' = <<>>
    /\ log' = <<>>
    /\ UNCHANGED <<now, config, lastClipboard, pasteTimers, poll, suppressedDocs,
                   buffers, flushTimers, fileOpens, run>>
    /\ UNCHANGED <<writerVars, diffVars>>

\* handlePaste from the point readText settles: the paste command is started
PasteRead(ok, t) ==
    /\ pastePc = "reading"
    /\ lastClipboard' = IF ok THEN t ELSE lastClipboard
    /\ pastePc' = "pasting"
    /\ emitted' = <<>>
    /\ log' = <<>>
    /\ UNCHANGED <<now, config, pasteFlag, pasteTimers, poll, suppressedDocs,
                   buffers, flushTimers, fileOpens, run>>
    /\ UNCHANGED <<writerVars, diffVars>>

\* handlePaste from the point the paste command settles: the timer is set
PasteActionDone ==
    /\ pastePc = "pasting"
    /\ pastePc' = "idle"
    /\ pasteTimers' = pasteTimers \cup {now + PASTE_FLAG_MS}
    /\ emitted' = <<>>
    /\ log' = <<>>
    /\ UNCHANGED <<now, config, pasteFlag, lastClipboard, poll, suppressedDocs,
                   buffers, flushTimers, fileOpens, run>>
    /\ UNCHANGED <<writerVars, diffVars>>

\* the callback of the timer handlePaste set
PasteTimerFires(t) ==
    /\ t \in pasteTimers
    /\ t <= now
    /\ pasteFlag' = FALSE
    /\ pasteTimers' = pasteTimers \ {t}
    /\ emitted' = <<>>
    /\ log' = <<>>
    /\ UNCHANGED <<now, config, lastClipboard, pastePc, poll, suppressedDocs,
                   buffers, flushTimers, fileOpens, run>>
    /\ UNCHANGED <<writerVars, diffVars>>

\* startPolling, the callback of the interval: readText is called
PollTick ==
    /\ poll.at <= now
    /\ poll' = [at |-> poll.at + POLL_MS, reads |-> poll.reads + 1]
    /\ emitted' = <<>>
    /\ log' = <<>>
    /\ UNCHANGED <<now, config, pasteFlag, lastClipboard, pastePc, pasteTimers,
                   suppressedDocs, buffers, flushTimers, fileOpens, run>>
    /\ UNCHANGED <<writerVars, diffVars>>

\* startPolling, the callbacks handed to then
PollRead(ok, t) ==
    /\ poll.reads > 0
    /\ poll' = [poll EXCEPT !.reads = @ - 1]
    /\ lastClipboard' = IF ok THEN t ELSE lastClipboard
    /\ emitted' = <<>>
    /\ log' = <<>>
    /\ UNCHANGED <<now, config, pasteFlag, pastePc, pasteTimers,
                   suppressedDocs, buffers, flushTimers, fileOpens, run>>
    /\ UNCHANGED <<writerVars, diffVars>>

\* the clock
TickR(d) ==
    /\ now + d <= StartTime + RuleSpan
    /\ now' = now + d
    /\ emitted' = <<>>
    /\ log' = <<>>
    /\ UNCHANGED <<config, clipVars, suppressedDocs, buffers, flushTimers, fileOpens,
                   run>>
    /\ UNCHANGED <<writerVars, diffVars>>

NextRules ==
    \/ \E doc \in RuleDocs, change \in RuleChanges : ProcessChange(doc, change)
    \/ \E k \in DOMAIN flushTimers : FlushTimerFires(k)
    \/ HandlePaste
    \/ \E ok \in BOOLEAN, t \in ClipTexts : PasteRead(ok, t)
    \/ PasteActionDone
    \/ \E t \in pasteTimers : PasteTimerFires(t)
    \/ PollTick
    \/ \E ok \in BOOLEAN, t \in ClipTexts : PollRead(ok, t)
    \/ \E d \in RuleDeltas : TickR(d)

\* nothing has happened since the extension was activated RuleStart ms ago
InitRules ==
    /\ now = StartTime + RuleStart
    /\ suppressedDocs = {}
    /\ EngineInit
    /\ WriterIdle
    /\ DiffIdle

SpecRules == InitRules /\ [][NextRules]_vars

----------------------------------------------------------------------------
(* Claims about the reject chain *)

\* C15. Single-character typing: a change that inserts exactly one character
\* and replaces nothing never produces a result, is never added to a pending
\* buffer and never raises a change count (nor arms a timer): a step that
\* emits, or touches a buffer or a timer, is not processChange on such a change.
C15_TypingIgnored ==
    [][ (emitted' # <<>> \/ buffers' # buffers \/ flushTimers' # flushTimers)
          => \A doc \in RuleDocs, change \in RuleChanges :
                (Len(change.text) = 1 /\ change.rangeLength = 0)
                   => ~ProcessChange(doc, change) ]_vars

\* C15's case: a typed character was passed over while a buffer was pending
\* (in these runs only a typed character leaves the CHANGE line alone in the
\* log)
C15_Witness ==
    /\ log = << <<"CHANGE", FALSE>> >>
    /\ buffers # <<>>
    /\ emitted = <<>>

\* C16. Paste suppression: a change whose text, trimmed, equals the last
\* clipboard read, trimmed, both longer than 3 characters, yields no
\* AI_LIKELY result at once and is not buffered, so that no later flush
\* carries it: a step that emits, or touches a buffer or a timer, is not
\* processChange on such a change.
C16_PasteSuppressed ==
    [][ (emitted' # <<>> \/ buffers' # buffers \/ flushTimers' # flushTimers)
          => \A doc \in RuleDocs, change \in RuleChanges :
                ( /\ Len(lastClipboard) > 3
                  /\ Len(change.text) > 3
                  /\ Trim(change.text) = Trim(lastClipboard) )
                   => ~ProcessChange(doc, change) ]_vars

\* C16's case: with the paste flag down, a change was skipped as a paste
\* because it matched the clipboard, while a buffer was pending
C16_Witness ==
    /\ log = << <<"CHANGE", FALSE>>, <<"SKIP: paste">> >>
    /\ ~pasteFlag
    /\ lastClipboard = TWord \o <<" ">>
    /\ buffers # <<>>
    /\ emitted = <<>>

\* C17. No cross-file sharing: changes to two different files never
\* accumulate in one pending buffer, so that no result carries text inserted
\* into another file than its document (and a job of the writer touches the
\* lock, cooldown and snapshot of its own file only).  The engine's half: a
\* step that raises the change count of a buffer is not processChange on a
\* document of another file than the buffer's.
C17_NoCrossFileSharing ==
    [][ \A k \in DOMAIN buffers :
            (k \in DOMAIN buffers' /\ buffers'[k].changeCount > buffers[k].changeCount)
               => \A doc \in RuleDocs, change \in RuleChanges :
                     ResolveRealFile(doc) # ResolveRealFile(buffers[k].document)
                        => ~ProcessChange(doc, change) ]_vars

\* C18. Minimum characters: a change whose trimmed text is shorter than
\* config.minCharsForDetection is ignored by processChange: a step that
\* creates or extends a buffer, arms a timer or emits is not processChange on
\* such a change.
C18_MinCharsIgnored ==
    [][ (emitted' # <<>> \/ buffers' # buffers \/ flushTimers' # flushTimers)
          => \A doc \in Docs, change \in Changes :
                Len(Trim(change.text)) < config.minCharsForDetection
                   => ~ProcessChange(doc, change) ]_vars

\* C19. Auto-indent: a short insertion of white space only is ignored by
\* processChange: a step that creates or extends a buffer, or re-arms a
\* timer, is not processChange on such a change (the white-space changes of
\* these runs are 3 characters long).
C19_AutoIndentIgnored ==
    [][ (buffers' # buffers \/ flushTimers' # flushTimers)
          => \A doc \in RuleDocs, change \in RuleChanges :
                (change.text # <<>> /\ Trim(change.text) = <<>>)
                   => ~ProcessChange(doc, change) ]_vars

----------------------------------------------------------------------------
(* flushBuffer on buffers of every size: SpecFlush *)

\* a buffer holds at most this many changes
MaxFlushChanges == 2

\* a completion of 20 characters, one of 36 characters followed by blanks,
\* and one of two lines
T20 == Rep("f", 20)
T40 == Rep("g", 36) \o Rep(" ", 4)
TTwoLines == Rep("h", 4) \o <<"\n">> \o Rep("h", 4)

\* the changes that reach the buffer code, all made at line 2
FlushChanges ==
    { [text |-> t, rangeLength |-> 0, line |-> 2] :
        t \in {T4, TIndent, T8, T20, T40, TTwoLines} }

\* the buffer processChange builds from changes that arrive in one burst
RECURSIVE BufferOf(_, _)
BufferOf(doc, changes) ==
    IF Len(changes) = 1 THEN NewBuffer(doc, changes[1])
    ELSE ExtendBuffer(BufferOf(doc, SubSeq(changes, 1, Len(changes) - 1)),
                      changes[Len(changes)])

\* a burst of changes on FileA has just been buffered
InitFlush ==
    /\ now = StartTime
    /\ suppressedDocs = {}
    /\ WriterIdle
    /\ DiffIdle
    /\ config = [enabled |-> TRUE, minCharsForDetection |-> 8]
    /\ pasteFlag = FALSE
    /\ lastClipboard = <<>>
    /\ pastePc = "idle"
    /\ pasteTimers = {}
    /\ poll = [at |-> StartTime + POLL_MS, reads |-> 0]
    /\ fileOpens = {}
    /\ emitted = <<>>
    /\ \E changes \in SeqsUpTo(FlushChanges, MaxFlushChanges) :
          /\ buffers = MapSet(<<>>, GetBufferKey(FileA), BufferOf(FileA, changes))
          /\ run = MapSet(<<>>, GetBufferKey(FileA),
                          [texts |-> [i \in 1..Len(changes) |-> changes[i].text],
                           last |-> now])
          /\ log = << <<"CHANGE", FALSE>>,
                      IF Len(changes) = 1 THEN <<"BUFFER START">>
                      ELSE <<"BUFFERED", Len(changes),
                             BufferOf(FileA, changes).totalChars>> >>
    /\ flushTimers = MapSet(<<>>, GetBufferKey(FileA), now + COALESCE_MS + 50)

\* the clock runs up to the deadline of the timer
TickF(d) ==
    /\ now + d <= StartTime + COALESCE_MS + 50
    /\ now' = now + d
    /\ emitted' = <<>>
    /\ log' = <<>>
    /\ UNCHANGED <<config, clipVars, suppressedDocs, buffers, flushTimers, fileOpens,
                   run>>
    /\ UNCHANGED <<writerVars, diffVars>>

NextFlush ==
    \/ \E d \in {COALESCE_MS + 50} : TickF(d)
    \/ \E k \in DOMAIN flushTimers : FlushTimerFires(k)

SpecFlush == InitFlush /\ [][NextFlush]_vars

\* the rule of the flush: the buffer is worth a result
Qualifies(buf) ==
    /\ Len(Trim(buf.totalText)) >= 8
    /\ ~( /\ buf.changeCount = 1
          /\ buf.totalChars < 40
          /\ CountLines(buf.totalText) = 1 )
    /\ (buf.changeCount >= 2 \/ Len(Trim(buf.totalText)) >= 20)

\* C21. Flush decision: a flushed buffer is dropped when its trimmed text
\* has fewer than 8 characters; else dropped when it holds one change of
\* fewer than 40 characters on one line; else it emits exactly one AI_LIKELY
\* result with the whole accumulated text, the buffer's start line and its
\* document iff its change count is 2 or more or its trimmed length 20 or
\* more; in every other case nothing is emitted.  The buffer is gone either
\* way.
C21_FlushDecision ==
    [][ \A k \in DOMAIN buffers :
            \/ /\ k \notin DOMAIN buffers'
               /\ IF Qualifies(buffers[k])
                  THEN /\ Len(emitted') = 1
                       /\ emitted'[1].classification = "AI_LIKELY"
                       /\ emitted'[1].text = buffers[k].totalText
                       /\ emitted'[1].line = buffers[k].startLine
                       /\ emitted'[1].document = buffers[k].document
                  ELSE emitted' = <<>>
            \/ ~FlushTimerFires(k) ]_vars

\* C21's case: one change of 40 characters, 36 after trimming, was emitted
C21_Witness ==
    /\ Len(log) = 2
    /\ log[1] = <<"FLUSH", 1, 40>>
    /\ Len(emitted) = 1
    /\ emitted[1].text = T40
    /\ emitted[1].line = 2
    /\ buffers = <<>>

\* C22. Window boundary: a buffer-worthy change that arrives COALESCE_MS or
\* more after the last update of the pending buffer does not extend it: the
\* old buffer is flushed first (its result, if it is worth one, is what the
\* call emits), then a buffer of change count 1 holding the new change alone
\* is created and a timer of COALESCE_MS + 50 is armed.
C22_WindowBoundary ==
    [][ \A doc \in Docs, change \in Changes :
            ( /\ GetBufferKey(doc) \in DOMAIN buffers
              /\ now - buffers[GetBufferKey(doc)].lastTime >= COALESCE_MS
              /\ BufferWorthy(doc, change) )
               => \/ /\ GetBufferKey(doc) \in DOMAIN buffers'
                     /\ buffers'[GetBufferKey(doc)].changeCount = 1
                     /\ buffers'[GetBufferKey(doc)].totalText = change.text
                     /\ buffers'[GetBufferKey(doc)].document = doc
                     /\ buffers'[GetBufferKey(doc)].lastTime = now
                     /\ GetBufferKey(doc) \in DOMAIN flushTimers'
                     /\ flushTimers'[GetBufferKey(doc)] = now + COALESCE_MS + 50
                     /\ IF Qualifies(buffers[GetBufferKey(doc)])
                        THEN /\ Len(emitted') = 1
                             /\ emitted'[1].text = buffers[GetBufferKey(doc)].totalText
                             /\ emitted'[1].document =
                                   buffers[GetBufferKey(doc)].document
                        ELSE emitted' = <<>>
                     /\ Len(log') >= 3
                     /\ log'[2][1] = "FLUSH"
                     /\ log'[Len(log')] = <<"BUFFER START">>
                  \/ ~ProcessChange(doc, change) ]_vars

\* C22's case: a change arrived after the window; the pending buffer of two
\* changes was flushed and emitted, and the new buffer holds one change
C22_Witness ==
    /\ Len(log) = 4
    /\ log[2][1] = "FLUSH"
    /\ log[3] = <<"AI_LIKELY (coalesced)">>
    /\ log[4] = <<"BUFFER START">>
    /\ Len(emitted) = 1
    /\ emitted[1].reason[2] >= 2
    /\ \A k \in DOMAIN buffers :
          buffers[k].changeCount = 1 /\ flushTimers[k] = now + COALESCE_MS + 50

\* ---------------------------------------------------------------------
\* The engine with its timers running: Node's event loop runs a timer's
\* callback once the timer is due, and the clock advances.  Changes arrive
\* only while the timer they arm comes due inside the span looked at.

BufKeys == { GetBufferKey(doc) : doc \in Docs }

LiveChange(doc, change) ==
    /\ now + COALESCE_MS + 50 <= StartTime + EngineSpan
    /\ ProcessChange(doc, change)

NextLive ==
    \/ \E doc \in Docs, change \in Changes : LiveChange(doc, change)
    \/ \E k \in DOMAIN flushTimers : FlushTimerFires(k)
    \/ \E d \in EngineDeltas : Tick(d)
    \/ \E doc \in Docs : WriterSuppresses(doc)
    \/ \E doc \in Docs : WriterUnsuppresses(doc)

SpecLive ==
    /\ Init
    /\ [][NextLive]_vars
    /\ WF_vars(\E d \in EngineDeltas : Tick(d))
    /\ \A k \in BufKeys : WF_vars(FlushTimerFires(k))

\* C23. Every pending buffer is eventually flushed and removed: whenever a
\* buffer exists a flush timer is armed for it, due COALESCE_MS + 50 after
\* the buffer's last update, and the timer's flush never comes earlier.
C23_BufferFlushed ==
    /\ [](\A k \in DOMAIN buffers :
            /\ k \in DOMAIN flushTimers
            /\ flushTimers[k] = buffers[k].lastTime + COALESCE_MS + 50)
    /\ \A k \in BufKeys : (k \in DOMAIN buffers) ~> (k \notin DOMAIN buffers)
    /\ [][ \A k \in DOMAIN buffers :
              \/ now >= buffers[k].lastTime + COALESCE_MS + 50
              \/ ~FlushTimerFires(k) ]_vars

\* C23's case: the timer of a buffer of two changes has flushed it while
\* its file was suppressed
C23_Witness ==
    /\ buffers = <<>>
    /\ flushTimers = <<>>
    /\ Len(log) >= 1
    /\ log[1][1] = "FLUSH"
    /\ log[1][2] = 2
    /\ UriString(FileA) \in suppressedDocs
    /\ now >= StartTime + 175 + COALESCE_MS + 50

\* ---------------------------------------------------------------------
\* The writer with its promises and timers running: every await of
\* doAnnotate settles, a timer's callback runs once the timer is due, and
\* the clock reaches the time of every timer that was set.

\* time passes until the next grace timer is due
AwaitTimer ==
    /\ \E j \in 1..Len(jobs) : jobs[j].timer > now
    /\ now' = now + GRACE_MS
    /\ log' = <<>>
    /\ UNCHANGED <<suppressedDocs, writerVars, diffVars>>
    /\ UNCHANGED <<config, clipVars, buffers, flushTimers, fileOpens,
                   emitted, run>>

\* the file is open, its snapshot was taken, and one line was inserted
\* below its last line since.  The file held a line of code, or a start
\* block whose end marker is gone, or a block with no code in it.
InitWriterLive ==
    /\ now = StartTime
    /\ suppressedDocs = {}
    /\ EngineInit
    /\ DiffIdle
    /\ docOpen = TRUE
    /\ \E text \in { <<"a">>,
                      BuildAnnotationStart(LanguageId, EmployeeId) \o <<"a">>,
                      BuildAnnotationStart(LanguageId, EmployeeId)
                         \o SubSeq(BuildAnnotationEnd(LanguageId), 1,
                                   Len(BuildAnnotationEnd(LanguageId)) - 1) } :
          /\ content = text \o <<"\n">> \o NewLine(1)
          /\ snapshots = MapSet(<<>>, UriString(FileA), text)
    /\ cooldowns = <<>>
    /\ locks = <<>>
    /\ jobs = <<>>
    /\ inserts = 1
    /\ edits = <<>>

\* the texts of the results: the inserted line, a text that is no line of
\* the file, and white space
ResultTexts == {NewLine(1), <<"q">>, <<" ">>}

NextWriterLive ==
    \/ \E doc \in FileDocs, text \in ResultTexts : AnnotateWith(doc, text)
    \/ \E j \in 1..Len(jobs), opened \in BOOLEAN : OpenDone(j, opened)
    \/ \E j \in 1..Len(jobs), success \in BOOLEAN : EditDone(j, success)
    \/ \E j \in 1..Len(jobs), saved \in BOOLEAN : SaveDone(j, saved)
    \/ \E j \in 1..Len(jobs) : GraceTimerFires(j)
    \/ \E doc \in FileDocs : OnDocumentClosed(doc)
    \/ \E doc \in FileDocs : OnDocumentOpened(doc)
    \/ \E d \in WriterDeltas : TickW(d)
    \/ AwaitTimer

SpecWriterLive ==
    /\ InitWriterLive
    /\ [][NextWriterLive]_vars
    /\ WF_vars(AwaitTimer)
    /\ \A j \in JobIds :
          /\ WF_vars(j \in 1..Len(jobs) /\ \E opened \in BOOLEAN : OpenDone(j, opened))
          /\ WF_vars(j \in 1..Len(jobs) /\ \E success \in BOOLEAN : EditDone(j, success))
          /\ WF_vars(j \in 1..Len(jobs) /\ \E saved \in BOOLEAN : SaveDone(j, saved))
          /\ WF_vars(j \in 1..Len(jobs) /\ GraceTimerFires(j))

\* the identities a file or chat document is suppressed under
SuppressIds == { UriString(doc) : doc \in Docs }

\* C24. Every identity a doAnnotate job adds to suppressedDocs is eventually
\* removed from it.
C24_SuppressionRemoved ==
    \A id \in SuppressIds : (id \in suppressedDocs) ~> (id \notin suppressedDocs)

\* C24's case: the one job suppressed the file, wrapped the new line and
\* returned, the file was never closed, and the job's timer has removed the
\* identity
C24_Witness ==
    /\ Len(jobs) = 1
    /\ jobs[1].pc = "done"
    /\ jobs[1].timer = -1
    /\ Len(edits) = 1
    /\ UriString(FileA) \in DOMAIN cooldowns
    /\ UriString(FileA) \in DOMAIN locks
    /\ suppressedDocs = {}
    /\ now >= StartTime + GRACE_MS

\* C26. Lock release on failure: a request queued behind a job is started
\* by the step in which that job fails (the file cannot be opened, the edit
\* fails or throws, the save throws), and so every queued request
\* eventually starts.
C26_LockReleased ==
    /\ \A j \in JobIds :
          (j \in 1..Len(jobs) /\ jobs[j].pc = "queued")
             ~> (j \in 1..Len(jobs) /\ jobs[j].pc # "queued")
    /\ [][ \A j \in 1..Len(jobs), k \in 1..Len(jobs) :
              \/ ~(jobs[k].pc = "queued" /\ jobs[k].prev = j)
              \/ jobs'[k].pc = "opening"
              \/ ~(OpenDone(j, FALSE) \/ EditDone(j, FALSE) \/ SaveDone(j, FALSE)) ]_vars

\* C26's case: the save of the first job threw, and the request queued
\* behind it has started
C26_Witness ==
    /\ Len(jobs) = 2
    /\ jobs[1].pc = "done"
    /\ jobs[2].pc = "opening"
    /\ jobs[2].prev = 1
    /\ log = <<<<"WRITER: error">>>>

\* C25. Failure isolation: a job that fails leaves the file's cooldown and
\* snapshot as they were before the job.  Stated for the job that made the
\* only edit so far, before which no cooldown was ever recorded: when its
\* save throws, the file has no cooldown afterwards, and the snapshot is the
\* one the step found; a step that fails at open or at the edit changes
\* neither.
C25_FailureIsolated ==
    [][ \A j \in 1..Len(jobs) :
            /\ \/ snapshots' = snapshots /\ cooldowns' = cooldowns
               \/ ~(OpenDone(j, FALSE) \/ EditDone(j, FALSE) \/ SaveDone(j, FALSE))
            /\ \/ jobs[j].pc # "saving"
               \/ Len(edits) # 1
               \/ jobs[j].key \notin DOMAIN cooldowns'
               \/ ~SaveDone(j, FALSE) ]_vars

\* what the diff of findNewCodeRange finds for a file against a snapshot
DiffOf(text, old) ==
    ScanNewLines(Split(text), Split(old), 0,
                 [used |-> <<>>, firstNew |-> -1, lastNew |-> -1])

NotLocated(text, old, insertedText) ==
    /\ Len(Trim(old)) > 0
    /\ DiffOf(text, old).firstNew = -1
    /\ LET insertedLines == NonBlank(Split(insertedText))
           lines == Split(text)
       IN  \/ insertedLines = <<>>
           \/ \A i \in 1..Len(lines) : Trim(lines[i]) # Trim(insertedLines[1])

\* C28. Empty range: the resolver returns a range with startLine >= endLine
\* exactly when neither the diff nor the search for the inserted text
\* locates new lines, and doAnnotate then returns with no edit, nothing
\* added to suppressedDocs, no timer, and cooldown and snapshot as they were
\* once the document was open.
C28_EmptyRange ==
    [][ \A j \in 1..Len(jobs) :
            \/ jobs[j].pc # "opening"
            \/ jobs'[j].pc = "opening"
            \/ Len(log') # 1
            \/ log'[1][1] = "WRITER: cannot open"
            \/ LET old == MapGet(snapshots', jobs[j].key, <<>>)
                   r == FindNewCodeRange(Split(content), old, jobs[j].text)
               IN  /\ (r.startLine >= r.endLine)
                         <=> NotLocated(content, old, jobs[j].text)
                   /\ (r.startLine >= r.endLine)
                         => /\ r = [startLine |-> 0, endLine |-> 0]
                            /\ content' = content
                            /\ edits' = edits
                            /\ suppressedDocs' = suppressedDocs
                            /\ cooldowns' = cooldowns
                            /\ snapshots' = IF docOpen THEN snapshots
                                            ELSE OpenWatcher(FileA)
                            /\ jobs'[j].pc = "done"
                            /\ jobs'[j].timer = -1
                            /\ log' = <<<<"WRITER: no new code range">>>>
                   /\ (r.startLine < r.endLine)
                         => log'[1][1] = "WRITER: new code"
            \/ ~OpenDone(j, TRUE) ]_vars

\* C28's case: the text of the result is no line of the file, whose
\* snapshot is its text: the job has returned with nothing done
C28_Witness ==
    /\ log = <<<<"WRITER: no new code range">>>>
    /\ Len(jobs) = 1
    /\ jobs[1].pc = "done"
    /\ jobs[1].timer = -1
    /\ suppressedDocs = {}
    /\ cooldowns = <<>>
    /\ edits = <<>>
    /\ ~ContainsMarker(content)
    /\ snapshots = MapSet(<<>>, UriString(FileA), content)

\* C29. Fallback range: when the diff finds no new line, the range the
\* resolver returns lies within the file: 0 <= startLine <= endLine <=
\* lineCount.
C29_FallbackRange ==
    (range # <<>> /\ Len(Trim(oldText)) > 0
                  /\ DiffOf(curText, oldText).firstNew = -1)
       => /\ 0 <= range[1].startLine
          /\ range[1].startLine <= range[1].endLine
          /\ range[1].endLine <= Len(Split(curText))

\* ---------------------------------------------------------------------
\* onDocumentClosed on the tables of two files.  The writer is idle: each
\* file may have a lock (the promise of its last job, which has returned),
\* a cooldown, a snapshot and suppression entries whose timer is pending.

CloseDocs == {FileA, FileLowerA, ChatA}
CloseIds == { UriString(doc) : doc \in CloseDocs }
FileKeys == { UriString(doc) : doc \in {FileA, FileLowerA} }
KeyOrder == <<UriString(FileA), UriString(FileLowerA)>>

\* the keys of KeyOrder that are in S, in that order
KeysIn(S) == SelectSeq(KeyOrder, LAMBDA key : key \in S)

\* the job that has returned for the file of key
DoneJob(key, suppressed) ==
    [key |-> key,
     resultDoc |-> IF key = UriString(FileA) /\ UriString(ChatA) \in suppressed
                   THEN UriString(ChatA)
                   ELSE IF key \in suppressed THEN key ELSE <<>>,
     text |-> <<>>, prev |-> 0, pc |-> "done", startLine |-> -1, endLine |-> -1,
     timer |-> IF key \in suppressed
                  \/ (key = UriString(FileA) /\ UriString(ChatA) \in suppressed)
               THEN StartTime + GRACE_MS ELSE -1,
     at |-> 0]

InitClose ==
    /\ now = StartTime
    /\ EngineInit
    /\ DiffIdle
    /\ docOpen = TRUE
    /\ content = <<"a">>
    /\ inserts = 0
    /\ \E locked \in SUBSET FileKeys, cooled \in SUBSET FileKeys,
          snapped \in SUBSET FileKeys, suppressed \in SUBSET CloseIds :
          /\ cooled \subseteq locked
          /\ suppressed \cap FileKeys \subseteq locked
          /\ UriString(ChatA) \in suppressed => UriString(FileA) \in locked
          /\ jobs = [i \in 1..Len(KeysIn(locked)) |->
                        DoneJob(KeysIn(locked)[i], suppressed)]
          /\ locks = [key \in locked |->
                        IF key = KeysIn(locked)[1] THEN 1 ELSE 2]
          /\ cooldowns = [key \in cooled |-> StartTime]
          /\ edits = [i \in 1..Len(KeysIn(cooled)) |->
                         [key |-> KeysIn(cooled)[i], at |-> 0]]
          /\ snapshots = [key \in snapped |-> <<"a">>]
          /\ suppressedDocs = suppressed

\* docCloseWatcher for one of the documents
CloseDocument(doc) ==
    /\ doc = FileA => docOpen
    /\ docOpen' = IF doc = FileA THEN FALSE ELSE docOpen
    /\ PurgeOnClose(UriString(doc))
    /\ log' = <<>>
    /\ UNCHANGED <<now, content, jobs, inserts, edits>>
    /\ UNCHANGED <<config, clipVars, buffers, flushTimers, fileOpens,
                   emitted, run, diffVars>>

NextClose ==
    \E doc \in CloseDocs : CloseDocument(doc)

SpecClose == InitClose /\ [][NextClose]_vars

\* the entry of key u is the same in m1 and m2
SameEntry(m1, m2, u) ==
    /\ u \in DOMAIN m1 <=> u \in DOMAIN m2
    /\ u \in DOMAIN m1 => m1[u] = m2[u]

\* C30. onDocumentClosed(uri) removes the lock, the cooldown, the snapshot
\* and the suppression entry of uri, and leaves the entries of every other
\* identity as they are.
C30_CloseFrame ==
    [][ \A doc \in CloseDocs :
            \/ /\ UriString(doc) \notin DOMAIN locks'
               /\ UriString(doc) \notin DOMAIN cooldowns'
               /\ UriString(doc) \notin DOMAIN snapshots'
               /\ UriString(doc) \notin suppressedDocs'
               /\ \A u \in CloseIds \ {UriString(doc)} :
                     /\ SameEntry(locks, locks', u)
                     /\ SameEntry(cooldowns, cooldowns', u)
                     /\ SameEntry(snapshots, snapshots', u)
                     /\ u \in suppressedDocs <=> u \in suppressedDocs'
               /\ DOMAIN locks' \subseteq CloseIds
               /\ DOMAIN cooldowns' \subseteq CloseIds
               /\ DOMAIN snapshots' \subseteq CloseIds
               /\ suppressedDocs' \subseteq CloseIds
            \/ ~CloseDocument(doc) ]_vars

\* C30's case: file:///A, which had a lock, was closed and has no entry,
\* while file:///a has all of its entries
C30_Witness ==
    /\ ~docOpen
    /\ Len(jobs) = 2
    /\ jobs[1].key = UriString(FileA)
    /\ UriString(FileA) \notin DOMAIN locks
    /\ UriString(FileA) \notin DOMAIN cooldowns
    /\ UriString(FileA) \notin DOMAIN snapshots
    /\ UriString(FileA) \notin suppressedDocs
    /\ UriString(FileLowerA) \in DOMAIN locks
    /\ UriString(FileLowerA) \in DOMAIN cooldowns
    /\ UriString(FileLowerA) \in DOMAIN snapshots
    /\ UriString(FileLowerA) \in suppressedDocs
    /\ UriString(ChatA) \in suppressedDocs

\* ---------------------------------------------------------------------
\* The engine behind its reject chain: the changes include the two blocks
\* the writer inserts, the enable flag is switched, documents are suppressed
\* and released, and pastes go on.

\* a deletion, a typed character, two short completions, and the end block
\* and the start block of an annotation as editor.edit inserts them
GateChanges ==
    { [text |-> <<>>, rangeLength |-> 1, line |-> 0],
      [text |-> T1,   rangeLength |-> 0, line |-> 0],
      [text |-> T4,   rangeLength |-> 0, line |-> 0],
      [text |-> T5,   rangeLength |-> 0, line |-> 1],
      [text |-> BuildAnnotationEnd(LanguageId), rangeLength |-> 0, line |-> 2],
      [text |-> BuildAnnotationStart(LanguageId, EmployeeId),
       rangeLength |-> 0, line |-> 1] }

\* DetectionEngine.updateConfig with the enable flag switched
UpdateConfig(enabled) ==
    /\ config.enabled # enabled
    /\ config' = [config EXCEPT !.enabled = enabled]
    /\ emitted' = <<>>
    /\ log' = <<>>
    /\ UNCHANGED <<now, clipVars, suppressedDocs, buffers, flushTimers,
                   fileOpens, run>>
    /\ UNCHANGED <<writerVars, diffVars>>

NextGate ==
    \/ \E doc \in FileDocs, change \in GateChanges : ProcessChange(doc, change)
    \/ \E k \in DOMAIN flushTimers : FlushTimerFires(k)
    \/ \E doc \in FileDocs : ProcessFileChange(doc)
    \/ \E doc \in FileDocs, opened \in BOOLEAN, text \in FileTexts :
          FileOpened(doc, opened, text)
    \/ \E d \in EngineDeltas : Tick(d)
    \/ \E doc \in FileDocs : WriterSuppresses(doc)
    \/ \E doc \in FileDocs : WriterUnsuppresses(doc)
    \/ \E enabled \in BOOLEAN : UpdateConfig(enabled)
    \/ HandlePaste
    \/ \E t \in {T5} : PasteRead(TRUE, t)
    \/ PasteActionDone
    \/ \E t \in pasteTimers : PasteTimerFires(t)

SpecGate == Init /\ [][NextGate]_vars

\* C31. Marker echo rejection: a change whose text contains one of the two
\* marker literals emits nothing and touches no buffer and no timer, on a
\* suppressed document and on one that is not; the blocks the writer builds
\* contain the literals in every comment style.
C31_MarkerEcho ==
    /\ [](\A languageId \in {"typescript", "python", "html", "css"} :
            /\ Includes(BuildAnnotationStart(languageId, EmployeeId),
                        ANNOTATION_MARKER)
            /\ Includes(BuildAnnotationEnd(languageId), ANNOTATION_END_MARKER))
    /\ [][ \A doc \in FileDocs, change \in GateChanges :
              \/ /\ emitted' = <<>>
                 /\ buffers' = buffers
                 /\ flushTimers' = flushTimers
                 /\ run' = run
              \/ ~( \/ Includes(change.text, ANNOTATION_MARKER)
                    \/ Includes(change.text, ANNOTATION_END_MARKER) )
              \/ ~ProcessChange(doc, change) ]_vars

\* C31's case: the start block arrived for a file that is not suppressed
\* and has a pending buffer, and was skipped
C31_Witness ==
    /\ log = << <<"CHANGE", FALSE>>, <<"SKIP: our marker">> >>
    /\ config.enabled
    /\ suppressedDocs = {}
    /\ emitted = <<>>
    /\ GetBufferKey(FileA) \in DOMAIN buffers
    /\ buffers[GetBufferKey(FileA)].changeCount = 2

\* C32. While the enable flag is false, a call of processChange or of
\* processFileChange ignores its input: it emits and logs nothing, creates
\* or extends no buffer, arms no timer and opens no file.
C32_DisabledIgnores ==
    [][ \/ config.enabled
        \/ /\ emitted' = <<>>
           /\ log' = <<>>
           /\ buffers' = buffers
           /\ flushTimers' = flushTimers
           /\ fileOpens' = fileOpens
        \/ ~( \/ \E doc \in FileDocs, change \in GateChanges :
                    ProcessChange(doc, change)
              \/ \E doc \in FileDocs : ProcessFileChange(doc) ) ]_vars

\* C32's case: the engine is disabled while a buffer is inside its window,
\* and the last step left no output
C32_Witness ==
    /\ ~config.enabled
    /\ emitted = <<>>
    /\ log = <<>>
    /\ fileOpens = {}
    /\ suppressedDocs = {}
    /\ ~pasteFlag
    /\ GetBufferKey(FileA) \in DOMAIN buffers
    /\ buffers[GetBufferKey(FileA)].changeCount = 1
    /\ now - buffers[GetBufferKey(FileA)].lastTime = 175

\* the lines of a file from line i on that lie in none of the blocks
RECURSIVE UnmarkedFrom(_, _, _)
UnmarkedFrom(lines, i, blocks) ==
    IF i >= Len(lines) THEN <<>>
    ELSE IF \E b \in blocks : b.start <= i /\ i <= b.end
        THEN UnmarkedFrom(lines, i + 1, blocks)
    ELSE <<lines[i + 1]>> \o UnmarkedFrom(lines, i + 1, blocks)

\* the content of a file outside its start/end marker pairs
Unmarked(text) ==
    Join(UnmarkedFrom(Split(text), 0, BlocksFrom(Split(text), 0, -1)))

\* C33. processFileChange emits at most one result per call, none for a
\* file whose content lies inside marker pairs, and, for a file with
\* unmarked content of 3 lines and 20 characters or more before, between or
\* after its blocks, one AI_LIKELY result with anchor line 0 carrying the
\* unmarked content.
C33_FileChange ==
    [][ \A doc \in FileDocs, text \in FileTexts :
            \/ /\ Len(emitted') <= 1
               /\ Len(Trim(Unmarked(text))) = 0 => emitted' = <<>>
               /\ (Len(Trim(Unmarked(text))) >= 20 /\ CountLines(Unmarked(text)) >= 3)
                     => /\ Len(emitted') = 1
                        /\ emitted'[1].line = 0
                        /\ emitted'[1].document = doc
                        /\ Trim(emitted'[1].text) = Trim(Unmarked(text))
            \/ ~FileOpened(doc, TRUE, text) ]_vars

\* C34. wasPasted(text) is true iff the paste flag is set, or the clipboard
\* and the text are both longer than 3 characters and equal after trimming,
\* or the clipboard is longer than 20 characters and its trimmed content
\* occurs in the text; the call changes no state of the detector.
C34_WasPasted ==
    /\ [](\A text \in { change.text : change \in RuleChanges }
                      \cup { <<"z">> \o TBlock \o <<"z">>, TWord \o <<"\n">> } :
            WasPasted(text)
               <=> \/ pasteFlag
                   \/ /\ Len(lastClipboard) >= 4
                      /\ Len(text) >= 4
                      /\ Trim(text) = Trim(lastClipboard)
                   \/ /\ Len(lastClipboard) >= 21
                      /\ \E i \in 1..(Len(text) + 1) :
                            /\ i + Len(Trim(lastClipboard)) - 1 <= Len(text)
                            /\ SubSeq(text, i, i + Len(Trim(lastClipboard)) - 1)
                                  = Trim(lastClipboard))
    /\ [][ \A doc \in RuleDocs, change \in RuleChanges :
              \/ clipVars' = clipVars
              \/ ~ProcessChange(doc, change) ]_vars

\* C34's case: with the flag down, the block was skipped as a paste because
\* the clipboard, a newline longer, equals it after trimming
C34_Witness ==
    /\ ~pasteFlag
    /\ pasteTimers = {}
    /\ Len(lastClipboard) = Len(TBlock) + 1
    /\ Len(log) = 2
    /\ log[2] = <<"SKIP: paste">>
    /\ buffers = <<>>

\* C35. Buffer/timer invariant: a buffer key has a pending buffer iff it
\* has an armed flush timer (one timer per key, the table holding one handle
\* per key), and a flush that emits has removed the buffer it emits: after
\* the step the key has no buffer, or a new one that holds only the change
\* that has just arrived.
C35_BufferTimer ==
    /\ [](DOMAIN buffers = DOMAIN flushTimers)
    /\ [][ \/ emitted' = <<>>
           \/ emitted'[1].reason[1] # "Coalesced"
           \/ /\ Len(emitted') = 1
              /\ GetBufferKey(emitted'[1].document) \in DOMAIN buffers
              /\ emitted'[1].text
                    = buffers[GetBufferKey(emitted'[1].document)].totalText
              /\ \/ GetBufferKey(emitted'[1].document) \notin DOMAIN buffers'
                 \/ /\ buffers'[GetBufferKey(emitted'[1].document)].changeCount = 1
                    /\ buffers'[GetBufferKey(emitted'[1].document)].lastTime = now
                    /\ \E change \in Changes :
                          buffers'[GetBufferKey(emitted'[1].document)].totalText
                             = change.text ]_vars

\* C35's case: the timer has flushed a buffer of two changes and emitted
\* it; neither buffer nor timer is left
C35_Witness ==
    /\ buffers = <<>>
    /\ flushTimers = <<>>
    /\ Len(emitted) = 1
    /\ emitted[1].reason[1] = "Coalesced"
    /\ emitted[1].reason[2] = 2
    /\ Len(log) = 2
    /\ log[1][1] = "FLUSH"

\* a change the reject chain of processChange turns away
Rejected(doc, change) ==
    \/ UriString(doc) \in suppressedDocs
    \/ Len(change.text) = 0
    \/ Includes(change.text, ANNOTATION_MARKER)
    \/ Includes(change.text, ANNOTATION_END_MARKER)
    \/ (Len(change.text) = 1 /\ change.rangeLength = 0)
    \/ pasteFlag
    \/ (Len(lastClipboard) > 3 /\ Len(change.text) > 3
          /\ Trim(change.text) = Trim(lastClipboard))

\* C36. Rejected changes are frame-neutral: a change turned away by the
\* chain (suppressed document, deletion, marker text, single character,
\* paste) emits nothing and leaves the buffers and the flush timers, and
\* with them the deadline of the file's flush, exactly as they were.
C36_RejectedNeutral ==
    [][ \A doc \in FileDocs, change \in GateChanges :
            \/ /\ buffers' = buffers
               /\ flushTimers' = flushTimers
               /\ emitted' = <<>>
               /\ run' = run
            \/ ~Rejected(doc, change)
            \/ ~ProcessChange(doc, change) ]_vars

\* C36's case: a change to the suppressed file was skipped while a buffer
\* of two changes was pending, whose timer is still due 400 ms after the
\* buffer's last change
C36_Witness ==
    /\ log = << <<"CHANGE", TRUE>>, <<"SKIP: suppressed">> >>
    /\ config.enabled
    /\ emitted = <<>>
    /\ GetBufferKey(FileA) \in DOMAIN buffers
    /\ buffers[GetBufferKey(FileA)].changeCount = 2
    /\ now > buffers[GetBufferKey(FileA)].lastTime
    /\ flushTimers[GetBufferKey(FileA)]
          = buffers[GetBufferKey(FileA)].lastTime + COALESCE_MS + 50

\* C37. A timer-driven flush decides from the buffer's contents alone:
\* whatever the enable flag and the suppression set are when the timer
\* fires, the buffer is removed, and one result carrying its text is
\* emitted exactly when its contents qualify.
C37_FlushUnguarded ==
    [][ \A k \in DOMAIN buffers :
            \/ /\ k \notin DOMAIN buffers'
               /\ k \notin DOMAIN flushTimers'
               /\ IF Qualifies(buffers[k])
                  THEN /\ Len(emitted') = 1
                       /\ emitted'[1].classification = "AI_LIKELY"
                       /\ emitted'[1].text = buffers[k].totalText
                       /\ emitted'[1].document = buffers[k].document
                  ELSE emitted' = <<>>
            \/ ~FlushTimerFires(k) ]_vars

\* C37's case: the timer of a buffer has emitted AI_LIKELY with the engine
\* disabled and the document suppressed
C37_Witness ==
    /\ ~config.enabled
    /\ UriString(FileA) \in suppressedDocs
    /\ Len(emitted) = 1
    /\ emitted[1].classification = "AI_LIKELY"
    /\ emitted[1].document = FileA
    /\ Len(log) = 2
    /\ log[1][1] = "FLUSH"
    /\ buffers = <<>>

\* the file of key is inside its cooldown
CooldownActive(key) == now - MapGet(cooldowns, key, 0) < COOLDOWN_MS

\* C38. The cooldown is tested when annotate is called and nowhere else: a
\* call inside the cooldown queues no job, while a job that was accepted
\* goes through its open step and its edit with the cooldown active as it
\* does without.
C38_CooldownAtAnnotate ==
    [][ /\ \/ ~CooldownActive(UriString(FileA))
           \/ jobs' = jobs
           \/ ~(\E doc \in FileDocs : Annotate(doc))
        /\ \A j \in 1..Len(jobs) :
              /\ \/ jobs[j].pc # "showing"
                 \/ ~CooldownActive(jobs[j].key)
                 \/ /\ jobs'[j].pc = "saving"
                    /\ content' # content
                    /\ Len(edits') = Len(edits) + 1
                 \/ ~EditDone(j, TRUE)
              /\ \/ jobs[j].pc # "opening"
                 \/ ~CooldownActive(jobs[j].key)
                 \/ Len(log') # 1
                 \/ log'[1][1] # "WRITER: new code"
                 \/ jobs'[j].pc = "showing"
                 \/ ~OpenDone(j, TRUE) ]_vars

\* C38's case: the second request was accepted while the first job was
\* pending, and has made its edit at the very time the first job recorded
\* the cooldown
C38_Witness ==
    /\ Len(jobs) = 2
    /\ jobs[2].pc = "saving"
    /\ jobs[2].prev = 1
    /\ Len(edits) = 2
    /\ now = StartTime
    /\ UriString(FileA) \in DOMAIN cooldowns
    /\ cooldowns[UriString(FileA)] = now

\* one of the lines startLine-4 .. startLine holds the start marker
MarkerNear(lines, startLine) ==
    \E i \in 0..(Len(lines) - 1) :
        /\ startLine - 4 <= i
        /\ i <= startLine
        /\ Includes(lines[i + 1], ANNOTATION_MARKER)

\* C39. The already-annotated check aborts when one of the lines
\* startLine-4 .. startLine contains the start marker, whether or not the
\* range lies inside a closed start/end pair: the job returns with no edit,
\* no suppression and no timer.
C39_MarkerNearAborts ==
    [][ \A j \in 1..Len(jobs) :
            \/ jobs[j].pc # "opening"
            \/ jobs'[j].pc = "opening"
            \/ Len(log') = 1 /\ log'[1][1] = "WRITER: cannot open"
            \/ LET lines == Split(content)
                   r == FindNewCodeRange(lines,
                           MapGet(snapshots', jobs[j].key, <<>>), jobs[j].text)
               IN  (r.startLine < r.endLine /\ MarkerNear(lines, r.startLine))
                      => /\ content' = content
                         /\ edits' = edits
                         /\ suppressedDocs' = suppressedDocs
                         /\ jobs'[j].pc = "done"
                         /\ jobs'[j].timer = -1
                         /\ Len(log') = 2
                         /\ log'[2] = <<"WRITER: already annotated">>
            \/ ~OpenDone(j, TRUE) ]_vars

\* C39's case: the new line follows a start block that has no end marker,
\* so it lies in no closed pair, and the job has returned without an edit
C39_Witness ==
    /\ Len(log) = 2
    /\ log[1] = <<"WRITER: new code", 4, 5>>
    /\ log[2] = <<"WRITER: already annotated">>
    /\ BlocksFrom(Split(content), 0, -1) = {}
    /\ Includes(content, ANNOTATION_MARKER)
    /\ edits = <<>>
    /\ suppressedDocs = {}
    /\ Len(jobs) = 1
    /\ jobs[1].pc = "done"

----------------------------------------------------------------------------
(* AnnotationWriter on a document no snapshot was taken of: SpecUntitled *)

\* an untitled document: resolveRealFile returns its own uri, and openWatcher,
\* saveWatcher and editorWatcher take snapshots of file documents only
UntitledA == [scheme |-> "untitled", fileName |-> <<"U">>]

\* the untitled document is open and holds the inserted line "x" as its last
\* line, below a line of code, a start block with no end marker, a line of
\* code and a block, or a block alone; no snapshot is stored
InitUntitled ==
    /\ now = StartTime
    /\ suppressedDocs = {}
    /\ EngineInit
    /\ DiffIdle
    /\ docOpen = TRUE
    /\ \E text \in { <<"a", "\n">>,
                      BuildAnnotationStart(LanguageId, EmployeeId) \o <<"a", "\n">>,
                      <<"a", "\n">> \o BuildAnnotationStart(LanguageId, EmployeeId)
                         \o <<"b", "\n">> \o BuildAnnotationEnd(LanguageId),
                      BuildAnnotationStart(LanguageId, EmployeeId)
                         \o <<"b", "\n">> \o BuildAnnotationEnd(LanguageId) } :
          content = text \o NewLine(1)
    /\ snapshots = <<>>
    /\ cooldowns = <<>>
    /\ locks = <<>>
    /\ jobs = <<>>
    /\ inserts = 1
    /\ edits = <<>>

NextUntitled ==
    \/ \E text \in ResultTexts : AnnotateWith(UntitledA, text)
    \/ \E j \in 1..Len(jobs), opened \in BOOLEAN : OpenDone(j, opened)
    \/ \E j \in 1..Len(jobs), success \in BOOLEAN : EditDone(j, success)
    \/ \E j \in 1..Len(jobs), saved \in BOOLEAN : SaveDone(j, saved)
    \/ \E j \in 1..Len(jobs) : GraceTimerFires(j)
    \/ InsertText
    \/ \E d \in WriterDeltas : TickW(d)

SpecUntitled == InitUntitled /\ [][NextUntitled]_vars

\* C40. With no snapshot stored under the job's key, doAnnotate resolves the
\* whole document [0, lineCount) as new whatever the reported text is; it
\* returns without an edit when line 0 holds the start marker, and otherwise
\* the edit wraps the whole document.
C40_NoSnapshotWholeFile ==
    /\ [][ \A j \in 1..Len(jobs) :
              \/ jobs[j].pc # "opening"
              \/ jobs'[j].pc = "opening"
              \/ Len(log') = 1 /\ log'[1][1] = "WRITER: cannot open"
              \/ MapGet(snapshots, jobs[j].key, <<>>) # <<>>
              \/ LET lines == Split(content)
                 IN  /\ log'[1] = <<"WRITER: new code", 0, Len(lines)>>
                     /\ content' = content
                     /\ IF Includes(lines[1], ANNOTATION_MARKER)
                        THEN /\ Len(log') = 2
                             /\ jobs'[j].pc = "done"
                             /\ jobs'[j].timer = -1
                             /\ suppressedDocs' = suppressedDocs
                        ELSE /\ Len(log') = 1
                             /\ jobs'[j].pc = "showing"
                             /\ jobs'[j].startLine = 0
                             /\ jobs'[j].endLine = Len(lines)
              \/ ~OpenDone(j, TRUE) ]_vars
    /\ [][ \A j \in 1..Len(jobs) :
              \/ jobs[j].pc # "showing"
              \/ jobs'[j].pc # "saving"
              \/ jobs[j].startLine # 0
              \/ jobs[j].endLine # Len(Split(content))
              \/ content' = BuildAnnotationStart(LanguageId, EmployeeId)
                               \o content \o <<"\n">>
                               \o BuildAnnotationEnd(LanguageId)
              \/ ~EditDone(j, TRUE) ]_vars

\* C40's case: the first job on the untitled document has wrapped both of its
\* lines, the line of code as well as the inserted line
C40_Witness ==
    /\ Len(jobs) = 1
    /\ jobs[1].key = UriString(UntitledA)
    /\ jobs[1].pc = "done"
    /\ log = <<<<"WRITER: wrapped", 0, 2>>>>
    /\ content = BuildAnnotationStart(LanguageId, EmployeeId)
                    \o <<"a", "\n", "x", "\n">>
                    \o BuildAnnotationEnd(LanguageId)
    /\ MapGet(snapshots, UriString(UntitledA), <<>>) = content

====
